---- MODULE Spec2Model ----
(***************************************************************************)
(* A model of src/lib/audio-analyzer.js: the offline audio analysis        *)
(* engine (FFT, band energies, beat detection, BPM estimation, waveform    *)
(* envelope), and of the AudioSignals player of src/lib/audio-signals.js,  *)
(* which plays a track back and reports its beats.                         *)
(*                                                                         *)
(* Numbers.  JavaScript numbers are modelled by integers in fixed units,   *)
(* chosen so that every value the model handles is a dyadic rational and   *)
(* the double arithmetic of the source is exact on it:                     *)
(*   - samples are counted in quarters (Unit = 4 stands for 1.0), the     *)
(*     samples getMono returns in eighths (MonoUnit);                      *)
(*   - times are counted in ticks of 1/64 s (TicksPerSecond); the beat     *)
(*     lists handed to estimateBPM alone also hold tenths of a second, on  *)
(*     values where the double arithmetic gives the rational outcome;      *)
(*   - flux values are counted in 1/64 (FluxUnit).                         *)
(* Comparisons against the decimal literals of the source (0.05, 0.15,     *)
(* 0.12, 0.08, 0.5 BPM) are cross-multiplied; a dyadic value never sits on *)
(* such a boundary, so the rounding of the literal cannot change the       *)
(* outcome.  NaN is a reserved value outside every range, and so is        *)
(* Inexact, which stands for a finite number the model does not track      *)
(* (the product of a sample and an irrational twiddle factor).             *)
(***************************************************************************)
EXTENDS Integers, Sequences, FiniteSets, TLC

VARIABLES
    pc,            \* position of the call in progress
    audioBuffer,   \* the caller's AudioBuffer: channels, sampleRate, samples
    numPoints,     \* generateWaveform's arguments after the buffer: <<>> or <<n>>
    waveform,      \* generateWaveform's return value
    beatList,      \* estimateBPM's first argument (timestamps in 1/640 s)
    bpm,           \* estimateBPM's return value
    flux,          \* detectBeats' kickFlux, snareFlux, hihatFlux after the frame loop
    beats,         \* detectBeats' return value: all, kicks, snares, hihats
    frequency,     \* analyzeFrequencyAndEnergy's band series: sub, bass, mid, high
    energy,        \* analyzeFrequencyAndEnergy's energy series
    onProgress,    \* analyzeAudio's second argument: is a callback given?
    progress,      \* the values the callback has been called with, in order
    throwAt,       \* the number of the call in which the callback throws, 0 for never
    twiddleCache,  \* the sizes that have an entry in twiddleCache
    windowCache,   \* the sizes that have an entry in windowCache
    data,          \* computeFFT's argument
    magnitudes,    \* computeFFT's return value
    written,       \* the arrays the call has assigned to, by name
    cached,        \* the entries of the two caches: key -> number of sets, table
    runs,          \* the number of this invocation, counted from 1
    history,       \* the invocations that ended before this one
    \* The fields of an AudioSignals object; null is <<>>, a value v is <<v>>
    trackData,     \* the loaded track
    audioUrl,      \* the URL of the audio file
    playing,
    startTime,     \* audioContext.currentTime at playback position 0
    pauseTime,     \* the position playback resumes from
    simulatedStartTime,  \* _simulatedStartTime: performance.now() at position 0
    simulatedInterval,   \* is the timer of _startSimulatedPlayback set?
    sourceNode,    \* the buffer source that play() created last
    audioContext,  \* the AudioContext: its state and the instant it began to run
    decodedAudio,  \* this.audioBuffer of the object: the <<duration>> of the decoded audio
    gainNode,      \* "none" for null, "current" for a node of this.audioContext,
                   \* "closed" for a node of a context that dispose() has closed
    lastBeatIndex, \* per beat type, the index of the beat reported last
    \* The browser around the object
    now,           \* the time since the page was loaded
    sources,       \* every buffer source created so far
    awaiting,      \* the calls of play() and initAudio() suspended at an await
    \* What the object has done
    hits,          \* per beat type, the <<index, time>> of each true checkBeat since the last reset
    onEndCalls,    \* the calls of onEnd, by the ended handler or by the timer
    playback       \* what the last play() started: "real", "simulated" or "none"

vars == <<pc, audioBuffer, numPoints, waveform, beatList, bpm, flux, beats,
          frequency, energy, onProgress, progress, throwAt, twiddleCache, windowCache,
          data, magnitudes, written, cached, runs, history,
          trackData, audioUrl, playing, startTime, pauseTime, simulatedStartTime,
          simulatedInterval, sourceNode, audioContext, decodedAudio, gainNode,
          lastBeatIndex, now, sources, awaiting, hits, onEndCalls, playback>>

waveVars == <<numPoints, waveform>>
bpmVars == <<beatList, bpm>>
beatVars == <<flux, beats>>
bandVars == <<frequency, energy>>
progressVars == <<onProgress, progress, throwAt>>
cacheVars == <<twiddleCache, windowCache, cached>>
runVars == <<runs, history>>
fftVars == <<data, magnitudes>>
playerVars == <<trackData, audioUrl, playing, startTime, pauseTime, simulatedStartTime,
                simulatedInterval, sourceNode, audioContext, decodedAudio, gainNode>>
browserVars == <<now, sources, awaiting>>
signalVars == <<playerVars, browserVars, lastBeatIndex, hits, onEndCalls, playback>>

NoFlux == [kick |-> <<>>, snare |-> <<>>, hihat |-> <<>>]
NoBeats == [all |-> <<>>, kicks |-> <<>>, snares |-> <<>>, hihats |-> <<>>]
WaveIdle == numPoints = <<>> /\ waveform = <<>>
BpmIdle == beatList = <<>> /\ bpm = 0
BeatIdle == flux = NoFlux /\ beats = NoBeats
NoFrequency == [sub |-> <<>>, bass |-> <<>>, mid |-> <<>>, high |-> <<>>]
BandIdle == frequency = NoFrequency /\ energy = <<>>
ProgressIdle == onProgress = FALSE /\ progress = <<>> /\ throwAt = 0
\* Both module-level Maps are empty when the module is loaded.
CachesEmpty == twiddleCache = {} /\ windowCache = {} /\ cached = <<>>
\* The first invocation after the module is loaded
FirstRun == runs = 1 /\ history = {}
FftIdle == data = <<>> /\ magnitudes = <<>>
NothingWritten == written = {}

BeatTypes == {"all", "kicks", "snares", "hihats"}
\* lastBeatIndex = { all: -1, kicks: -1, snares: -1, hihats: -1 }
NoneReported == [type \in BeatTypes |-> 0 - 1]
NoHits == [type \in BeatTypes |-> <<>>]
\* An AudioSignals object after its constructor, in a page just loaded
SignalsIdle ==
    /\ trackData = <<>>
    /\ audioUrl = <<>>
    /\ playing = FALSE
    /\ startTime = 0
    /\ pauseTime = 0
    /\ simulatedStartTime = <<>>
    /\ simulatedInterval = FALSE
    /\ sourceNode = <<>>
    /\ audioContext = <<>>
    /\ decodedAudio = <<>>
    /\ gainNode = "none"
    /\ lastBeatIndex = NoneReported
    /\ now = 0
    /\ sources = <<>>
    /\ awaiting = <<>>
    /\ hits = NoHits
    /\ onEndCalls = <<>>
    /\ playback = "none"

\* ---------------------------------------------------------------- numbers
Unit == 2 * 2
TicksPerSecond == 2 ^ 6
NaN == 0 - 2 ^ 30
IsNaN(x) == x = NaN
Inexact == 0 - 2 ^ 29

Min(a, b) == IF a < b THEN a ELSE b

\* Math.floor(a / b) for b > 0
FloorDiv(a, b) == a \div b
\* Math.ceil(a / b) for b > 0
CeilDiv(a, b) == 0 - ((0 - a) \div b)

\* ------------------------------------------------------- Number (binary64)
\* Where a result of the code depends on how a JavaScript number is rounded,
\* the number is computed as the engine computes it.  A natural number is a
\* sequence of limbs of 15 bits, lowest first and without zeros at the top;
\* a number x >= 0 is [m, e] for x = m * 2^e, with m below 2^53 after every
\* operation.
LowLimb(v) == v % (2 ^ 15)
Carry(v) == v \div (2 ^ 15)

RECURSIVE Limbs(_)
Limbs(n) == IF n = 0 THEN <<>> ELSE <<LowLimb(n)>> \o Limbs(Carry(n))

RECURSIVE FromLimbs(_)
FromLimbs(x) == IF x = <<>> THEN 0 ELSE x[1] + (2 ^ 15) * FromLimbs(Tail(x))

RECURSIVE Trim(_)
Trim(x) ==
    IF x = <<>> \/ x[Len(x)] # 0 THEN x ELSE Trim(SubSeq(x, 1, Len(x) - 1))

LimbAt(x, i) == IF i <= Len(x) THEN x[i] ELSE 0

\* x * k + carry, for k below 2^15
RECURSIVE TimesFrom(_, _, _, _)
TimesFrom(x, k, i, carry) ==
    IF i > Len(x) THEN Limbs(carry)
    ELSE LET v == x[i] * k + carry
         IN  <<LowLimb(v)>> \o TimesFrom(x, k, i + 1, Carry(v))

Times(x, k) == Trim(TimesFrom(x, k, 1, 0))

RECURSIVE PlusFrom(_, _, _, _)
PlusFrom(x, y, i, carry) ==
    IF i > Len(x) /\ i > Len(y) THEN Limbs(carry)
    ELSE LET v == LimbAt(x, i) + LimbAt(y, i) + carry
         IN  <<LowLimb(v)>> \o PlusFrom(x, y, i + 1, Carry(v))

Plus(x, y) == PlusFrom(x, y, 1, 0)

\* x - y for x >= y
RECURSIVE MinusFrom(_, _, _, _)
MinusFrom(x, y, i, borrow) ==
    IF i > Len(x) THEN <<>>
    ELSE LET v == x[i] - LimbAt(y, i) - borrow
         IN  <<IF v < 0 THEN v + 2 ^ 15 ELSE v>>
                 \o MinusFrom(x, y, i + 1, IF v < 0 THEN 1 ELSE 0)

Minus(x, y) == Trim(MinusFrom(x, y, 1, 0))

\* -1, 0, 1 for x < y, x = y, x > y
Order(x, y) ==
    IF Len(x) # Len(y) THEN (IF Len(x) < Len(y) THEN 0 - 1 ELSE 1)
    ELSE LET differ == {i \in 1..Len(x) : x[i] # y[i]}
         IN  IF differ = {} THEN 0
             ELSE LET top == CHOOSE i \in differ : \A j \in differ : j <= i
                  IN  IF x[top] < y[top] THEN 0 - 1 ELSE 1

RECURSIVE BitLength(_)
BitLength(n) == IF n = 0 THEN 0 ELSE 1 + BitLength(n \div 2)

Bits(x) == IF x = <<>> THEN 0 ELSE (Len(x) - 1) * 15 + BitLength(x[Len(x)])

ShiftLeft(x, s) ==
    IF x = <<>> THEN <<>>
    ELSE [i \in 1..(s \div 15) |-> 0] \o Times(x, 2 ^ (s % 15))

ShiftRight(x, s) ==
    LET y == SubSeq(x, (s \div 15) + 1, Len(x))
        k == 2 ^ (s % 15)
    IN  Trim([i \in 1..Len(y) |-> ((LimbAt(y, i + 1) % k) * (2 ^ 15) + y[i]) \div k])

\* m * 2^e rounded to 53 bits, ties to the even neighbour
Nearest(m, e) ==
    IF Bits(m) <= 53 THEN [m |-> m, e |-> e]
    ELSE LET s == Bits(m) - 53
             kept == ShiftRight(m, s)
             rest == Order(Minus(m, ShiftLeft(kept, s)), ShiftLeft(<<1>>, s - 1))
             up == rest > 0 \/ (rest = 0 /\ kept[1] % 2 = 1)
         IN  [m |-> IF up THEN Plus(kept, <<1>>) ELSE kept, e |-> e + s]

FromInt(n) == [m |-> Limbs(n), e |-> 0]

\* The limbs of the fraction r / d below the point, lowest first, the last
\* one made odd when a remainder is left
RECURSIVE FractionLimbs(_, _, _)
FractionLimbs(r, d, count) ==
    LET t == r * (2 ^ 15)
        q == t \div d
        rest == t % d
    IN  IF count = 1 THEN <<IF rest # 0 /\ q % 2 = 0 THEN q + 1 ELSE q>>
        ELSE FractionLimbs(rest, d, count - 1) \o <<q>>

\* n / d for whole numbers n >= 0 and 0 < d < 2^16
Ratio(n, d) ==
    Nearest(Trim(FractionLimbs(n % d, d, 5) \o Limbs(n \div d)), 0 - 75)

\* x * k for a whole number k below 2^15
Product(x, k) == Nearest(Times(x.m, k), x.e)

\* -1, 0, 1 for x < y, x = y, x > y
Compare(x, y) ==
    LET e == Min(x.e, y.e)
    IN  Order(ShiftLeft(x.m, x.e - e), ShiftLeft(y.m, y.e - e))

\* x - y for x >= y
Difference(x, y) ==
    LET e == Min(x.e, y.e)
    IN  Nearest(Minus(ShiftLeft(x.m, x.e - e), ShiftLeft(y.m, y.e - e)), e)

\* The long division by den of the 15 bits of a limb that follow the
\* remainder rem, bit j next: <<quotient limb, remainder>>
RECURSIVE DivideLimb(_, _, _, _, _)
DivideLimb(den, rem, limb, j, q) ==
    IF j = 0 THEN <<q, rem>>
    ELSE LET r2 == Trim(TimesFrom(rem, 2, 1, (limb \div (2 ^ (j - 1))) % 2))
         IN  IF Order(r2, den) >= 0
             THEN DivideLimb(den, Minus(r2, den), limb, j - 1, 2 * q + 1)
             ELSE DivideLimb(den, r2, limb, j - 1, 2 * q)

\* The long division of num by den from limb i of num down:
\* <<quotient, remainder>>
RECURSIVE DivideFrom(_, _, _, _)
DivideFrom(num, den, i, rem) ==
    IF i = 0 THEN <<<<>>, rem>>
    ELSE LET step == DivideLimb(den, rem, num[i], 15, 0)
             rest == DivideFrom(num, den, i - 1, step[2])
         IN  IF step[1] >= 0 THEN <<rest[1] \o <<step[1]>>, rest[2]>> ELSE <<>>

RECURSIVE Multiply(_, _)
Multiply(x, y) ==
    IF y = <<>> THEN <<>> ELSE Trim(Plus(Times(x, y[1]), <<0>> \o Multiply(x, Tail(y))))

\* x = n / d, for whole numbers n and d
IsRatio(x, n, d) ==
    IF x.e >= 0 THEN Order(ShiftLeft(Multiply(x.m, Limbs(d)), x.e), Limbs(n)) = 0
    ELSE Order(Multiply(x.m, Limbs(d)), ShiftLeft(Limbs(n), 0 - x.e)) = 0

\* x / y for y > 0
Divide(x, y) ==
    LET shift == IF Bits(y.m) + 56 > Bits(x.m) THEN Bits(y.m) + 56 - Bits(x.m) ELSE 0
        num == ShiftLeft(x.m, shift)
        qr == DivideFrom(num, y.m, Len(num), <<>>)
        q == Trim(qr[1])
        sticky == IF qr[2] # <<>> /\ q[1] % 2 = 0 THEN Plus(q, <<1>>) ELSE q
    IN  IF x.m = <<>> THEN x ELSE Nearest(sticky, x.e - y.e - shift)

\* Math.floor(x)
Floor(x) ==
    IF x.e >= 0 THEN FromLimbs(ShiftLeft(x.m, x.e)) ELSE FromLimbs(ShiftRight(x.m, 0 - x.e))

\* ---------------------------------------------------------------- bounds
MaxLen == 3
MaxPoints == 4

SampleValues == {0 - 2 * Unit, 0 - (Unit \div 2), 0, Unit \div 2, 2 * Unit}

RECURSIVE SeqsOfLen(_, _)
SeqsOfLen(S, n) ==
    IF n = 0 THEN {<<>>}
    ELSE {Append(s, x) : s \in SeqsOfLen(S, n - 1), x \in S}

SeqsUpTo(S, n) == UNION {SeqsOfLen(S, k) : k \in 0..n}

\* ---------------------------------------------------------------- getMono
MonoBuffer(samples) ==
    [numberOfChannels |-> 1, channels |-> <<samples>>]

StereoBuffer(left, right) ==
    [numberOfChannels |-> 2, channels |-> <<left, right>>]

\* The samples of a channel are counted in 1 / Unit and the samples getMono
\* returns in 1 / MonoUnit, half as large, in which
\* "(left[i] + right[i]) / 2" is the sum left[i] + right[i] with nothing
\* rounded away, and a sample of a mono buffer is twice its count.
MonoUnit == 2 * Unit

getMono(buf) ==
    IF buf.numberOfChannels = 1
    THEN [i \in 1..Len(buf.channels[1]) |-> 2 * buf.channels[1][i]]
    ELSE [i \in 1..Len(buf.channels[1]) |->
            buf.channels[1][i] + buf.channels[2][i]]

\* ----------------------------------------------------------------- writes
\* The arrays a call may assign to, by name.  "channel0" and "channel1" are
\* the arrays getChannelData returns: the caller's channel data.  Every
\* other name is an array the engine allocates.
CallerArrays == {"channel0", "channel1"}

\* The array getMono returns: the caller's own array for a mono buffer, a
\* new array for a stereo one
MonoArray(buf) == IF buf.numberOfChannels = 1 THEN "channel0" ELSE "mono"

\* "mono[i] = (left[i] + right[i]) / 2"
getMonoWrites(buf) == IF buf.numberOfChannels = 1 THEN {} ELSE {"mono"}

\* "cos[i] = ...; sin[i] = ...", when the size has no entry yet
getTwiddleFactorsWrites(cache, N) == IF N \in cache THEN {} ELSE {"cos", "sin"}

\* "window[i] = ...", when the size has no entry yet
createHannWindowWrites(cache, size) == IF size \in cache THEN {} ELSE {"window"}

\* computeFFT(data) and fft: real.set(data) and the magnitudes loop assign
\* to the three arrays computeFFT allocates, fft to real and imag
computeFFTWrites(cache, N) ==
    {"real", "imag", "magnitudes"} \cup getTwiddleFactorsWrites(cache, N)

\* The array the frame loops assign the windowed samples to:
\* "frameData[i] = channelData[startSample + i] * window[i]"
FrameArray_inPlace(channelData) == channelData

FrameArray(channelData) == "frameData"

\* analyzeFrequencyAndEnergy(channelData, ...) with the given number of
\* frames; normalizeArray assigns to the series it is given
analyzeFrequencyAndEnergyWrites(channelData, frames, size, twiddles, windows) ==
    createHannWindowWrites(windows, size) \cup
    (IF frames > 0
     THEN {FrameArray(channelData), "frequency", "energy"}
          \cup computeFFTWrites(twiddles, size)
     ELSE {})

\* detectBeats(channelData, ...) with the given number of frames
detectBeatsWrites(channelData, frames, size, twiddles, windows) ==
    createHannWindowWrites(windows, size) \cup {"allBeats", "uniqueBeats"} \cup
    (IF frames > 0
     THEN {FrameArray(channelData), "kickFlux", "snareFlux", "hihatFlux", "peaks"}
          \cup computeFFTWrites(twiddles, size)
     ELSE {})

estimateBPMWrites == {"intervals", "histogram", "smoothed"}

generateWaveformWrites(buf) == getMonoWrites(buf) \cup {"waveform"}

\* ------------------------------------------------------- generateWaveform
DefaultNumPoints == 1000

\* [start, end) of span i (0-based) as the loop of the source computes it
SpanStart(i, samplesPerPoint) == i * samplesPerPoint
SpanEnd(i, samplesPerPoint, len) ==
    Min(SpanStart(i, samplesPerPoint) + samplesPerPoint, len)

RECURSIVE ScanMin(_, _, _, _)
ScanMin(channelData, j, end, min) ==
    IF j >= end THEN min
    ELSE ScanMin(channelData, j + 1, end,
                 IF channelData[j + 1] < min THEN channelData[j + 1] ELSE min)

RECURSIVE ScanMax(_, _, _, _)
ScanMax(channelData, j, end, max) ==
    IF j >= end THEN max
    ELSE ScanMax(channelData, j + 1, end,
                 IF channelData[j + 1] > max THEN channelData[j + 1] ELSE max)

\* "let min = 1.0; let max = -1.0", in 1 / MonoUnit
InitMin == MonoUnit
InitMax == 0 - MonoUnit

\* waveform[k - 1] of the source (k is 1-based here): the minimum of span
\* (k-1) div 2 at even source indices, its maximum at odd ones.
WaveformEntry(channelData, samplesPerPoint, k) ==
    LET i == (k - 1) \div 2
        start == SpanStart(i, samplesPerPoint)
        end == SpanEnd(i, samplesPerPoint, Len(channelData))
    IN  IF k % 2 = 1
        THEN ScanMin(channelData, start, end, InitMin)
        ELSE ScanMax(channelData, start, end, InitMax)

\* Math.floor(channelData.length / numPoints); unused when numPoints is 0
\* (the quotient is Infinity or NaN and the loop body never runs).
SamplesPerPoint(len, points) ==
    IF points = 0 THEN 0 ELSE FloorDiv(len, points)

\* mutation: the result array allocated with numPoints entries, not 2 * numPoints
generateWaveform_onePerPoint(buf, n) ==
    LET points == IF n = <<>> THEN DefaultNumPoints ELSE n[1]
        channelData == getMono(buf)
    IN  [k \in 1..points |->
            WaveformEntry(channelData, SamplesPerPoint(Len(channelData), points), k)]

generateWaveform(buf, n) ==
    LET points == IF n = <<>> THEN DefaultNumPoints ELSE n[1]
        channelData == getMono(buf)
    IN  [k \in 1..(points * 2) |->
            WaveformEntry(channelData, SamplesPerPoint(Len(channelData), points), k)]

\* Stereo samples: the sums 0.25 + 0 and -0.25 + 0 have an odd count
StereoValues == {0 - (Unit \div 4), 0, Unit \div 4, 2 * Unit}

WaveBuffers ==
    {MonoBuffer(s) : s \in SeqsUpTo(SampleValues, MaxLen)}
    \cup {StereoBuffer(l, r) : l, r \in SeqsOfLen(StereoValues, 2)}

InitWave ==
    /\ pc = "call"
    /\ audioBuffer \in WaveBuffers
    /\ numPoints \in {<<>>} \cup {<<n>> : n \in 0..MaxPoints}
    /\ waveform = <<>>
    /\ BpmIdle
    /\ BeatIdle
    /\ BandIdle
    /\ ProgressIdle
    /\ CachesEmpty
    /\ NothingWritten
    /\ FirstRun
    /\ FftIdle
    /\ SignalsIdle

GenerateWaveform ==
    /\ pc = "call"
    /\ waveform' = generateWaveform(audioBuffer, numPoints)
    /\ written' = written \cup generateWaveformWrites(audioBuffer)
    /\ pc' = "returned"
    /\ UNCHANGED <<signalVars, runVars, fftVars, audioBuffer, numPoints, bpmVars, beatVars, bandVars, progressVars, cacheVars>>

NextWave == GenerateWaveform

SpecWave == InitWave /\ [][NextWave]_vars

\* C7: generateWaveform returns exactly 2n values for every buffer length,
\* shorter than n included, and 2000 values when n is omitted.
C7_WaveformLength ==
    pc = "returned" =>
        /\ numPoints # <<>> => Len(waveform) = 2 * numPoints[1]
        /\ numPoints = <<>> => Len(waveform) = 2000

C7_Witness ==
    /\ pc = "returned"
    /\ numPoints = <<MaxPoints>>
    /\ Len(getMono(audioBuffer)) < MaxPoints
    /\ Len(getMono(audioBuffer)) > 0
    /\ Len(waveform) = 2 * MaxPoints

\* C8: every pair (waveform[2i], waveform[2i+1]) satisfies min <= max, also
\* when a span holds no sample.
C8_MinLeMax ==
    pc = "returned" =>
        \A i \in 0..((Len(waveform) \div 2) - 1) :
            waveform[2 * i + 1] <= waveform[2 * i + 2]

\* The samples of span i (0-based), as a set of 0-based indices.
SpanIndices(i) ==
    LET points == IF numPoints = <<>> THEN DefaultNumPoints ELSE numPoints[1]
        len == Len(getMono(audioBuffer))
        spp == SamplesPerPoint(len, points)
    IN  {j \in 0..(len - 1) : i * spp <= j /\ j < i * spp + spp}

\* C9: every span's entry pair is the true minimum and maximum of the span's
\* samples, whatever their values, and every sample lies in some span.
C9_TrueMinMax ==
    pc = "returned" =>
        LET mono == getMono(audioBuffer)
            n == Len(waveform) \div 2
        IN  /\ \A i \in 0..(n - 1) :
                  SpanIndices(i) # {} =>
                      /\ \A j \in SpanIndices(i) : waveform[2 * i + 1] <= mono[j + 1]
                      /\ \E j \in SpanIndices(i) : waveform[2 * i + 1] = mono[j + 1]
                      /\ \A j \in SpanIndices(i) : waveform[2 * i + 2] >= mono[j + 1]
                      /\ \E j \in SpanIndices(i) : waveform[2 * i + 2] = mono[j + 1]
            /\ n > 0 =>
                  \A j \in 0..(Len(mono) - 1) : \E i \in 0..(n - 1) : j \in SpanIndices(i)

\* ------------------------------------------------------------ estimateBPM
minBPM == 60
maxBPM == 200
\* resolution = 0.5 BPM per bin, kept as its reciprocal
binsPerBPM == 2
numBins == (maxBPM - minBPM) * binsPerBPM
fallbackBPM == 120
minBeats == 4

\* The beat lists of this section count time in 1/39040 s, which holds the
\* ticks of 1/64 s, tenths of a second and the beats of a steady 122 BPM
\* (30/61 s apart).
BeatsPerSecond == TicksPerSecond * 10 * 61
\* hopSize of detectBeats, whose frameDuration is hopSize / sampleRate
hopSize == 512

\* Timestamps and intervals are whole numbers of 1/perSecond s; the operators
\* below take perSecond after the arguments of the source.
\* The number the code holds for the timestamp n: counted in ticks it is the
\* quotient n / perSecond, counted in samples it is the product
\* i * frameDuration that findPeaks made for frame i = n / hopSize.
Seconds(n, perSecond) ==
    IF perSecond \in {TicksPerSecond, BeatsPerSecond} THEN Ratio(n, perSecond)
    ELSE Product(Ratio(hopSize, perSecond), n \div hopSize)

\* interval = beats[i] - beats[i - 1] as the number the code holds, for beat
\* after last
Interval(last, beat, perSecond) ==
    Difference(Seconds(beat, perSecond), Seconds(last, perSecond))

\* bpm = 60 / interval against 60 * perSecond / d, the tempo of the interval
\* d = beat - last taken exactly, when four times that tempo is a whole
\* number: -1 below it, 0 on it, 1 above it
Rounding(last, beat, perSecond) ==
    LET interval == Interval(last, beat, perSecond)
        exact == [m |-> Limbs((240 * perSecond) \div (beat - last)), e |-> 0 - 2]
    IN  IF IsRatio(interval, beat - last, perSecond) THEN 0
        ELSE Compare(Divide(FromInt(60), interval), exact)

\* The three multipliers 0.5, 1, 2, doubled.
Multipliers2 == {1, 2, 4}

\* adjustedBPM = (60 / interval) * multiplier, with interval = d / perSecond
\* and multiplier = m2 / 2, is within a few 2^-53 of the rational
\* AdjNum(d, m2, perSecond) / AdjDen(d).  It compares with a whole number of
\* half BPM as the rational does, unless the rational is that number: then
\* side, the Rounding of the interval, says where adjustedBPM lies.
AdjNum(d, m2, perSecond) == 60 * perSecond * m2
AdjDen(d) == 2 * d

\* The rational is a whole number of half BPM
OnBinEdge(d, m2, perSecond) == (AdjNum(d, m2, perSecond) * binsPerBPM) % AdjDen(d) = 0

\* adjustedBPM >= minBPM && adjustedBPM <= maxBPM
InRange(d, m2, perSecond, side) ==
    /\ \/ AdjNum(d, m2, perSecond) > minBPM * AdjDen(d)
       \/ AdjNum(d, m2, perSecond) = minBPM * AdjDen(d) /\ side >= 0
    /\ \/ AdjNum(d, m2, perSecond) < maxBPM * AdjDen(d)
       \/ AdjNum(d, m2, perSecond) = maxBPM * AdjDen(d) /\ side <= 0

\* Math.floor((adjustedBPM - minBPM) / resolution)
BinOf(d, m2, perSecond, side) ==
    FloorDiv((AdjNum(d, m2, perSecond) - minBPM * AdjDen(d)) * binsPerBPM, AdjDen(d))
        - (IF OnBinEdge(d, m2, perSecond) /\ side < 0 THEN 1 ELSE 0)

\* Arrays of the source are sequences here: source index i is index i + 1.
Zeros(n) == [i \in 1..n |-> 0]
\* The same array, held as an enumerated tuple.
Array(f) == SubSeq(f, 1, Len(f))

\* One pass of the multiplier loop body: the candidate m2 of the interval d
\* adds one vote to its bin when it is in range and the bin exists.
Vote(histogram, d, m2, perSecond, side) ==
    IF /\ InRange(d, m2, perSecond, side)
       /\ BinOf(d, m2, perSecond, side) >= 0
       /\ BinOf(d, m2, perSecond, side) < numBins
    THEN [histogram EXCEPT ![BinOf(d, m2, perSecond, side) + 1] = @ + 1]
    ELSE histogram

\* The Rounding of the interval when a candidate of it is a whole number of
\* half BPM, 0 when none is
Side(last, beat, perSecond) ==
    IF \E m2 \in Multipliers2 : OnBinEdge(beat - last, m2, perSecond)
    THEN Rounding(last, beat, perSecond)
    ELSE 0

\* The body of "for (const interval of intervals)", for the interval
\* beat - last
VoteInterval(histogram, last, beat, perSecond) ==
    LET d == beat - last
        side == Side(last, beat, perSecond)
        votes(at) ==
            Vote(Vote(Vote(histogram, d, 1, perSecond, at), d, 2, perSecond, at),
                 d, 4, perSecond, at)
    IN  IF d <= 0 THEN histogram
        ELSE IF side < 0 THEN votes(0 - 1)
        ELSE IF side > 0 THEN votes(1)
        ELSE votes(0)

RECURSIVE VoteAll(_, _, _, _)
VoteAll(histogram, list, i, perSecond) ==
    IF i >= Len(list) THEN histogram
    ELSE VoteAll(Array(VoteInterval(histogram, list[i], list[i + 1], perSecond)),
                 list, i + 1, perSecond)

Histogram(list, perSecond) ==
    VoteAll(Array(Zeros(numBins)), list, 1, perSecond)

\* smoothed[i] * 9; bins 0, 1, numBins-2 and numBins-1 stay 0
Smoothed9(h) ==
    Array([k \in 1..numBins |->
        IF k - 1 >= 2 /\ k - 1 < numBins - 2
        THEN h[k - 2] + h[k - 1] * 2 + h[k] * 3 + h[k + 1] * 2 + h[k + 2]
        ELSE 0])

\* mutation: ">=" in the scan, which keeps the highest bin of a tie
RECURSIVE FirstMax_lastOfTie(_, _, _)
FirstMax_lastOfTie(sm, lo, hi) ==
    IF lo = hi THEN lo
    ELSE LET mid == (lo + hi) \div 2
             left == FirstMax_lastOfTie(sm, lo, mid)
             right == FirstMax_lastOfTie(sm, mid + 1, hi)
         IN  IF sm[right + 1] >= sm[left + 1] THEN right ELSE left

\* The scan "if (smoothed[i] > maxValue) { maxValue = smoothed[i]; maxBin = i }"
\* over bins lo..hi keeps the lowest bin that holds the largest value; it is
\* evaluated by halves to keep the evaluation shallow.
RECURSIVE FirstMax(_, _, _)
FirstMax(sm, lo, hi) ==
    IF lo = hi THEN lo
    ELSE LET mid == (lo + hi) \div 2
             left == FirstMax(sm, lo, mid)
             right == FirstMax(sm, mid + 1, hi)
         IN  IF sm[right + 1] > sm[left + 1] THEN right ELSE left

\* maxBin after the scan from maxBin = 0, maxValue = 0: bin 0 when no bin
\* is above 0.
PeakBin(sm) ==
    LET first == FirstMax(sm, 0, numBins - 1)
    IN  IF sm[first + 1] > 0 THEN first ELSE 0

\* mutation: the bin index added without the 0.5 BPM resolution
RoundBPM_noResolution(maxBin) == minBPM + maxBin

\* Math.round(minBPM + maxBin * resolution): halves round up
RoundBPM(maxBin) == minBPM + FloorDiv(maxBin + 1, binsPerBPM)

\* mutation: the fallback taken below 3 beats instead of below 4
estimateBPM_threeBeats(list, duration, perSecond) ==
    IF Len(list) < minBeats - 1 THEN fallbackBPM
    ELSE RoundBPM(PeakBin(Smoothed9(Histogram(list, perSecond))))

estimateBPM(list, duration, perSecond) ==
    IF Len(list) < minBeats THEN fallbackBPM
    ELSE RoundBPM(PeakBin(Smoothed9(Histogram(list, perSecond))))

MaxBeats == 5
Tick == BeatsPerSecond \div TicksPerSecond
Tenth == BeatsPerSecond \div 10
\* Beat timestamps at 0 s, 1/16 s, 3/8 s, 37/64 s, 3/4 s, 2 s
TickValues == {0, 4 * Tick, 24 * Tick, 37 * Tick, 48 * Tick, 128 * Tick}
\* Beat timestamps at 0 s, 0.3 s, 0.4 s, 0.8 s, 1.2 s
TenthValues == {0, 3 * Tenth, 4 * Tenth, 8 * Tenth, 12 * Tenth}
\* Beats from 0 s on at a steady 192, 160, 123.87 and 120 BPM
SteadySpacings == {20 * Tick, 24 * Tick, 31 * Tick, 32 * Tick}
SteadyLists ==
    {[i \in 1..n |-> (i - 1) * d] : d \in SteadySpacings, n \in minBeats..MaxBeats}
\* Beats 0.15 s, 0.3 s, 0.4 s and 30/61 s apart, from 0 s, from 7/640 s and
\* from 1/488 s on: some of their differences are not the number nearest to
\* the spacing
RoundedSpacings ==
    {(3 * Tenth) \div 2, 3 * Tenth, 4 * Tenth, (30 * BeatsPerSecond) \div 61}
RoundedStarts == {0, (7 * Tick) \div 10, BeatsPerSecond \div 488}
RoundedLists ==
    {[i \in 1..n |-> start + (i - 1) * d] :
        d \in RoundedSpacings, start \in RoundedStarts, n \in minBeats..MaxBeats}

InitBPM ==
    /\ pc = "call"
    /\ beatList \in SeqsUpTo(TickValues, MaxBeats) \cup SeqsOfLen(TenthValues, minBeats)
                      \cup SteadyLists \cup RoundedLists
    /\ bpm = 0
    /\ audioBuffer = MonoBuffer(<<>>)
    /\ WaveIdle
    /\ BeatIdle
    /\ BandIdle
    /\ ProgressIdle
    /\ CachesEmpty
    /\ NothingWritten
    /\ FirstRun
    /\ FftIdle
    /\ SignalsIdle

EstimateBPM ==
    /\ pc = "call"
    /\ bpm' = estimateBPM(beatList, 0, BeatsPerSecond)
    /\ written' = written \cup estimateBPMWrites
    /\ pc' = "returned"
    /\ UNCHANGED <<signalVars, runVars, fftVars, audioBuffer, beatList, waveVars, beatVars, bandVars, progressVars, cacheVars>>

NextBPM == EstimateBPM

SpecBPM == InitBPM /\ [][NextBPM]_vars

\* C3: estimateBPM returns a whole number in [60, 200] for every beat list,
\* also when no candidate tempo is in range and when intervals are <= 0.
C3_BpmInRange ==
    pc = "returned" => bpm \in minBPM..maxBPM

\* 4 or more beats, with a non-positive interval and with no vote at all
C3_Witness ==
    /\ pc = "returned"
    /\ Len(beatList) >= minBeats
    /\ \E i \in 1..(Len(beatList) - 1) : beatList[i + 1] - beatList[i] <= 0
    /\ Histogram(beatList, BeatsPerSecond) = Array(Zeros(numBins))
    /\ bpm = minBPM

\* C4: with fewer than 4 beats estimateBPM returns exactly 120, whatever the
\* timestamps are, as a normal return.
C4_FallbackBelowFour ==
    (pc = "returned" /\ Len(beatList) < 4) => bpm = 120

C4_Witness ==
    /\ pc = "returned"
    /\ Len(beatList) = 3
    /\ beatList = <<0, 24 * Tick, 48 * Tick>>
    /\ bpm = 120

\* The votes in bins lo..hi of a histogram, summed by halves
RECURSIVE Votes(_, _, _)
Votes(histogram, lo, hi) ==
    IF lo > hi THEN 0
    ELSE IF lo = hi THEN histogram[lo + 1]
    ELSE LET mid == (lo + hi) \div 2
         IN  Votes(histogram, lo, mid) + Votes(histogram, mid + 1, hi)

\* The candidate tempos of a beat list: interval i with multiplier m2 / 2
Candidates(list) ==
    {c \in (1..(Len(list) - 1)) \X Multipliers2 : list[c[1] + 1] - list[c[1]] > 0}

CandidateInRange(list, c) ==
    InRange(list[c[1] + 1] - list[c[1]], c[2], BeatsPerSecond,
            Side(list[c[1]], list[c[1] + 1], BeatsPerSecond))

\* adjustedBPM === bound, for a candidate of the list
CandidateIs(list, c, bound) ==
    /\ AdjNum(list[c[1] + 1] - list[c[1]], c[2], BeatsPerSecond) =
           bound * AdjDen(list[c[1] + 1] - list[c[1]])
    /\ Side(list[c[1]], list[c[1] + 1], BeatsPerSecond) = 0

\* C23: every candidate tempo (60 / interval, its half, its double) of a
\* positive interval that lies in the closed range [60, 200] adds exactly one
\* vote, exactly 60 and exactly 200 included, and no other candidate votes:
\* the histogram holds as many votes as there are candidates in range.
C23_EveryInRangeCandidateVotes ==
    (pc = "returned" /\ Len(beatList) >= minBeats) =>
        Votes(Histogram(beatList, BeatsPerSecond), 0, numBins - 1) =
            Cardinality({c \in Candidates(beatList) : CandidateInRange(beatList, c)})

\* What the code does: the candidates of exactly 200 BPM are the ones, and
\* the only ones, in range that add no vote.
C23_AllButExactly200Vote ==
    (pc = "returned" /\ Len(beatList) >= minBeats) =>
        Votes(Histogram(beatList, BeatsPerSecond), 0, numBins - 1) =
            Cardinality({c \in Candidates(beatList) :
                /\ CandidateInRange(beatList, c)
                /\ ~CandidateIs(beatList, c, maxBPM)})

\* Beats 0.3 s apart (a candidate of exactly 200) and 0.5 s apart (the half
\* tempo is exactly 60, which votes in bin 0)
C23_Exactly200Reached ==
    /\ pc = "returned"
    /\ Len(beatList) >= minBeats
    /\ \E c \in Candidates(beatList) : CandidateIs(beatList, c, maxBPM)
    /\ \E c \in Candidates(beatList) : CandidateIs(beatList, c, minBPM)
    /\ Histogram(beatList, BeatsPerSecond)[1] > 0

\* The smoothed count of bin b times 9, as stated: the weights 1, 2, 3, 2, 1
\* over bins b - 2 .. b + 2 for an interior bin, 0 for the two bins at each edge
KernelWeights == <<1, 2, 3, 2, 1>>
StatedCount9(h, b) ==
    IF b < 2 \/ b > numBins - 3 THEN 0
    ELSE LET term(j) == KernelWeights[j] * h[b + j - 2]
         IN  term(1) + term(2) + term(3) + term(4) + term(5)

\* The bins whose stated count is above 0, and among them the ones that hold
\* the largest count
CountedBins(h) == {b \in 0..(numBins - 1) : StatedCount9(h, b) > 0}
TopBins(h) ==
    LET counted == CountedBins(h)
    IN  {b \in counted : \A c \in counted : StatedCount9(h, c) <= StatedCount9(h, b)}

\* The lowest-index bin whose count equals the maximum (bin 0 when every
\* count is 0)
StatedBin(h) ==
    LET top == TopBins(h)
    IN  IF top = {} THEN 0 ELSE CHOOSE b \in top : \A c \in top : b <= c

\* C24: with 4 or more beats estimateBPM returns 60 + b * 0.5 rounded to a
\* whole number, where b is the lowest-index bin whose smoothed count equals
\* the maximum, so that a tie goes to the lowest BPM.
C24_LowestBinOfMaximum ==
    (pc = "returned" /\ Len(beatList) >= minBeats) =>
        LET h == Histogram(beatList, BeatsPerSecond)
            b == StatedBin(h)
        IN  /\ 2 * bpm >= 2 * minBPM + b
            /\ 2 * bpm <= 2 * minBPM + b + 1

\* Two bins share the largest count and the lower one is returned
C24_Witness ==
    /\ pc = "returned"
    /\ Len(beatList) >= minBeats
    /\ LET top == TopBins(Histogram(beatList, BeatsPerSecond))
       IN  \E b \in top : \E c \in top :
               /\ c > b + 2 * binsPerBPM
               /\ bpm < minBPM + (c \div binsPerBPM)

\* 4 or more beats, each the same positive time d after the one before
EvenlySpaced(list, d) ==
    /\ Len(list) >= minBeats
    /\ d > 0
    /\ \A i \in 1..(Len(list) - 1) : list[i + 1] - list[i] = d

\* The bin of m2 / 2 times the tempo of the spacing d
TempoBin(d, m2) == BinOf(d, m2, BeatsPerSecond, 0)

\* The candidate m2 / 2 times the tempo of the spacing d is in range and its
\* bin is one the smoothing loop visits
InteriorBin(d, m2) ==
    /\ InRange(d, m2, BeatsPerSecond, 0)
    /\ TempoBin(d, m2) >= 2
    /\ TempoBin(d, m2) < numBins - 2

\* x is the whole number nearest to the half tempo 30 / d
NearestToHalfTempo(x, d) ==
    LET twice == 2 * (x * AdjDen(d) - AdjNum(d, 1, BeatsPerSecond))
    IN  twice <= AdjDen(d) /\ 0 - twice <= AdjDen(d)

\* C27: for 4 or more evenly spaced beats whose tempo T and half tempo T / 2
\* both fall in interior bins, the two bins get equal smoothed counts and
\* estimateBPM returns the half tempo.
C27_SteadyTempoIsHalved ==
    \A d \in {beatList[i + 1] - beatList[i] : i \in 1..(Len(beatList) - 1)} :
        (/\ pc = "returned"
         /\ EvenlySpaced(beatList, d)
         /\ InteriorBin(d, 2)
         /\ InteriorBin(d, 1)) =>
            LET sm == Smoothed9(Histogram(beatList, BeatsPerSecond))
            IN  /\ sm[TempoBin(d, 2) + 1] = sm[TempoBin(d, 1) + 1]
                /\ sm[TempoBin(d, 1) + 1] > 0
                /\ NearestToHalfTempo(bpm, d)
                /\ bpm < minBPM + (TempoBin(d, 2) \div binsPerBPM)

\* What the code does: the two counts are equal and the half tempo is
\* returned when no interval of the list gives a tempo below the bin edge
\* that the spacing's tempo lies on.
C27_HalvedUnlessRoundedDown ==
    \A d \in {beatList[i + 1] - beatList[i] : i \in 1..(Len(beatList) - 1)} :
        (/\ pc = "returned"
         /\ EvenlySpaced(beatList, d)
         /\ InteriorBin(d, 2)
         /\ InteriorBin(d, 1)
         /\ \A i \in 1..(Len(beatList) - 1) :
                Side(beatList[i], beatList[i + 1], BeatsPerSecond) >= 0) =>
            LET sm == Smoothed9(Histogram(beatList, BeatsPerSecond))
            IN  /\ sm[TempoBin(d, 2) + 1] = sm[TempoBin(d, 1) + 1]
                /\ sm[TempoBin(d, 1) + 1] > 0
                /\ NearestToHalfTempo(bpm, d)
                /\ bpm < minBPM + (TempoBin(d, 2) \div binsPerBPM)

\* Four beats 0.4 s apart, 150 BPM: 75 is returned
C27_HalfTempoReturned ==
    /\ pc = "returned"
    /\ EvenlySpaced(beatList, 4 * Tenth)
    /\ InteriorBin(4 * Tenth, 2)
    /\ InteriorBin(4 * Tenth, 1)
    /\ TempoBin(4 * Tenth, 2) = (150 - minBPM) * binsPerBPM
    /\ bpm = 75

\* Four beats 30/61 s apart from 1/488 s on, 122 BPM: 122 is returned
C27_FullTempoReturned ==
    /\ pc = "returned"
    /\ Len(beatList) = minBeats
    /\ beatList[1] = BeatsPerSecond \div 488
    /\ EvenlySpaced(beatList, (30 * BeatsPerSecond) \div 61)
    /\ InteriorBin((30 * BeatsPerSecond) \div 61, 2)
    /\ InteriorBin((30 * BeatsPerSecond) \div 61, 1)
    /\ bpm = 122

\* ----------------------------------------------------------------- caches
\* Math.cos(-2 * Math.PI * i / N) as stored in the Float32Array: 1 at i = 0,
\* about 6e-17 ("tiny") at a quarter turn, else a value that is not tracked
TwiddleCos(N, i) ==
    IF i = 0 THEN "one" ELSE IF 4 * i = N THEN "tiny" ELSE "other"

\* Math.sin(-2 * Math.PI * i / N): -0 at i = 0, -1 at a quarter turn
TwiddleSin(N, i) ==
    IF i = 0 THEN "zero" ELSE IF 4 * i = N THEN "minusOne" ELSE "other"

\* The entry computed for size N: the loop runs while i < N / 2 and its
\* stores past the truncated length are ignored.
getTwiddleFactors(N) ==
    [cos |-> Array([k \in 1..(N \div 2) |-> TwiddleCos(N, k - 1)]),
     sin |-> Array([k \in 1..(N \div 2) |-> TwiddleSin(N, k - 1)])]

\* The window createHannWindow computes for a size:
\* 0.5 * (1 - Math.cos(2 * Math.PI * i / (size - 1))) is 0 at both ends, a
\* value that is not tracked between them, and NaN (0 / 0) for size 1.
HannTable(size) ==
    Array([k \in 1..size |->
        IF size = 1 THEN NaN ELSE IF k = 1 \/ k = size THEN 0 ELSE Inexact])

\* The keys of the two Maps, told apart by the name of the Map
TwiddleKey(N) == <<"twiddle", N>>
WindowKey(size) == <<"window", size>>

\* What getTwiddleFactors and createHannWindow compute for a key
TableFor(key) ==
    IF key[1] = "twiddle" THEN getTwiddleFactors(key[2]) ELSE HannTable(key[2])

\* "if (cache.has(N)) return cache.get(N)" does not apply
Misses_always(entries, key) == TRUE

Misses(entries, key) == key \notin DOMAIN entries

\* One call of getTwiddleFactors or of createHannWindow: the cache after it.
\* An entry records how many times cache.set was called for its key.
Request(entries, key) ==
    IF Misses(entries, key)
    THEN (key :> [sets |-> (IF key \in DOMAIN entries THEN entries[key].sets ELSE 0) + 1,
                  table |-> TableFor(key)]) @@ entries
    ELSE entries

RECURSIVE Requests(_, _)
Requests(entries, keys) ==
    IF keys = <<>> THEN entries
    ELSE Requests(Request(entries, Head(keys)), Tail(keys))

\* The table such a call returns
Entry_otherWindowOnHit(entries, key) ==
    IF key \in DOMAIN entries /\ key[1] = "window"
    THEN LET sizes == {k[2] : k \in {e \in DOMAIN entries : e[1] = "window"}}
             least == CHOOSE n \in sizes : \A m \in sizes : n <= m
         IN  entries[WindowKey(least)].table
    ELSE Request(entries, key)[key].table

Entry(entries, key) == Request(entries, key)[key].table

\* -------------------------------------------------------------- findPeaks
frameSize == 1024
windowSize == 20
\* Thresholds of the three flux signals, in hundredths.
kickThreshold == 15
snareThreshold == 12
hihatThreshold == 8
FluxUnit == 2 ^ 6

\* Sample rates whose hop (512 / sampleRate seconds) is a whole number of ticks.
SampleRates == {8192, 16384, 32768}

\* frameDuration = hopSize / sampleRate, in ticks
FrameDuration(sampleRate) == (hopSize * TicksPerSecond) \div sampleRate

\* mutation: the frame count taken as floor(length / hopSize)
NumFrames_noFrameSize(len) == FloorDiv(len, hopSize)

\* mutation: the frame count rounded up, which is 0 from 513 samples on
NumFrames_roundedUp(len) == CeilDiv(len - frameSize, hopSize)

\* Math.floor((channelData.length - frameSize) / hopSize); negative below 1024 samples
NumFrames(len) == FloorDiv(len - frameSize, hopSize)

\* signal[lo] + ... + signal[hi] (source indices), summed by halves
RECURSIVE SumRange(_, _, _)
SumRange(signal, lo, hi) ==
    IF lo > hi THEN 0
    ELSE IF lo = hi THEN signal[lo + 1]
    ELSE LET mid == (lo + hi) \div 2
         IN  SumRange(signal, lo, mid) + SumRange(signal, mid + 1, hi)

LocalSum(signal, i) == SumRange(signal, i - windowSize, i + windowSize)

\* mutation: the following frame is not compared
IsPeak_oneSided(signal, i, threshold) ==
    /\ signal[i + 1] * 100 > threshold * FluxUnit
    /\ signal[i + 1] * 2 * (windowSize * 2 + 1) > 3 * LocalSum(signal, i)
    /\ signal[i + 1] > signal[i]

\* signal[i] > Math.max(threshold, localMean * 1.5) and above both neighbours,
\* with localMean = localSum / 41: s > 1.5 * sum / 41 iff 82 * s > 3 * sum.
IsPeak(signal, i, threshold) ==
    /\ signal[i + 1] * 100 > threshold * FluxUnit
    /\ signal[i + 1] * 2 * (windowSize * 2 + 1) > 3 * LocalSum(signal, i)
    /\ signal[i + 1] > signal[i]
    /\ signal[i + 1] > signal[i + 2]

\* The indices the loop "for (i = windowSize; i < signal.length - windowSize; i++)" visits
PeakCandidates(signal) ==
    [k \in 1..(Len(signal) - 2 * windowSize) |-> windowSize + k - 1]

findPeaks(signal, frameDuration, threshold) ==
    LET hit(i) == IsPeak(signal, i, threshold)
        found == SelectSeq(PeakCandidates(signal), hit)
    IN  [k \in 1..Len(found) |-> found[k] * frameDuration]

\* ------------------------------------------------------------ detectBeats
\* Array.prototype.sort((a, b) => a - b): x inserted into the sorted list
RECURSIVE Insert(_, _)
Insert(sorted, x) ==
    IF sorted = <<>> THEN <<x>>
    ELSE IF x < Head(sorted) THEN <<x>> \o sorted
    ELSE <<Head(sorted)>> \o Insert(Tail(sorted), x)

RECURSIVE SortAsc(_)
SortAsc(list) ==
    IF list = <<>> THEN <<>>
    ELSE Insert(SortAsc(SubSeq(list, 1, Len(list) - 1)), list[Len(list)])

\* mutation: only a timestamp equal to the last kept one is dropped
FarEnough_exactDuplicates(beat, last) == beat - last > 0

\* mutation: a window of 100 ms
FarEnough_100ms(beat, last) == (beat - last) * 100 > 10 * TicksPerSecond

\* beat - uniqueBeats[uniqueBeats.length - 1] > 0.05, in ticks
FarEnough(beat, last) == (beat - last) * 100 > 5 * TicksPerSecond

RECURSIVE Dedup(_, _)
Dedup(allBeats, uniqueBeats) ==
    IF allBeats = <<>> THEN uniqueBeats
    ELSE LET beat == Head(allBeats)
         IN  IF uniqueBeats = <<>> \/ FarEnough(beat, uniqueBeats[Len(uniqueBeats)])
             THEN Dedup(Tail(allBeats), Append(uniqueBeats, beat))
             ELSE Dedup(Tail(allBeats), uniqueBeats)

\* mutation: the merged list returned sorted but not deduplicated
MergeBeats_noDedup(kicks, snares, hihats) == SortAsc(kicks \o snares \o hihats)

\* allBeats sorted, then the scan that builds uniqueBeats
MergeBeats(kicks, snares, hihats) ==
    Dedup(SortAsc(kicks \o snares \o hihats), <<>>)

\* mutation: the category lists cut down to the timestamps the merge kept
BeatsFromFlux_dedupedLists(fl, sampleRate) ==
    LET frameDuration == FrameDuration(sampleRate)
        kicks == findPeaks(fl.kick, frameDuration, kickThreshold)
        snares == findPeaks(fl.snare, frameDuration, snareThreshold)
        hihats == findPeaks(fl.hihat, frameDuration, hihatThreshold)
        all == MergeBeats(kicks, snares, hihats)
        kept(t) == \E k \in 1..Len(all) : all[k] = t
    IN  [all |-> all, kicks |-> SelectSeq(kicks, kept),
         snares |-> SelectSeq(snares, kept), hihats |-> SelectSeq(hihats, kept)]

\* detectBeats after its frame loop: fl holds the three flux signals the loop
\* produced for the buffer.
BeatsFromFlux(fl, sampleRate) ==
    LET frameDuration == FrameDuration(sampleRate)
        kicks == findPeaks(fl.kick, frameDuration, kickThreshold)
        snares == findPeaks(fl.snare, frameDuration, snareThreshold)
        hihats == findPeaks(fl.hihat, frameDuration, hihatThreshold)
    IN  [all |-> MergeBeats(kicks, snares, hihats),
         kicks |-> kicks, snares |-> snares, hihats |-> hihats]

\* At a sample rate whose hop is not a whole number of ticks the timestamps
\* are counted in samples (1 / sampleRate s): index * hopSize.
\* beat - uniqueBeats[uniqueBeats.length - 1] > 0.05, in samples: the
\* difference of the two products i * frameDuration is within a few 2^-53 of
\* (beat - last) / sampleRate, so that it compares with 0.05 as that rational
\* does unless the rational is 1/20, where the rounding decides
FarEnoughInSamples(beat, last, sampleRate) ==
    IF (beat - last) * 100 = 5 * sampleRate
    THEN Compare(Interval(last, beat, sampleRate), Ratio(1, 20)) > 0
    ELSE (beat - last) * 100 > 5 * sampleRate

RECURSIVE DedupInSamples(_, _, _)
DedupInSamples(allBeats, uniqueBeats, sampleRate) ==
    IF allBeats = <<>> THEN uniqueBeats
    ELSE LET beat == Head(allBeats)
         IN  IF uniqueBeats = <<>>
                \/ FarEnoughInSamples(beat, uniqueBeats[Len(uniqueBeats)], sampleRate)
             THEN DedupInSamples(Tail(allBeats), Append(uniqueBeats, beat), sampleRate)
             ELSE DedupInSamples(Tail(allBeats), uniqueBeats, sampleRate)

\* detectBeats after its frame loop, with the timestamps in samples
BeatsInSamples(fl, sampleRate) ==
    LET kicks == findPeaks(fl.kick, hopSize, kickThreshold)
        snares == findPeaks(fl.snare, hopSize, snareThreshold)
        hihats == findPeaks(fl.hihat, hopSize, hihatThreshold)
    IN  [all |-> DedupInSamples(SortAsc(kicks \o snares \o hihats), <<>>, sampleRate),
         kicks |-> kicks, snares |-> snares, hihats |-> hihats]

\* The unit of the timestamps of a buffer, per second
TimeBase(sampleRate) ==
    IF sampleRate \in SampleRates THEN TicksPerSecond ELSE sampleRate

\* detectBeats after its frame loop, in the unit of the buffer's sample rate
BeatsOf(fl, sampleRate) ==
    IF sampleRate \in SampleRates THEN BeatsFromFlux(fl, sampleRate)
    ELSE BeatsInSamples(fl, sampleRate)

\* A flux signal of n frames that is 0 except at the frames of spikes
\* (a function from frame indices to values).
SparseSignal(n, spikes) ==
    Array([k \in 1..n |-> IF (k - 1) \in DOMAIN spikes THEN spikes[k - 1] ELSE 0])

MaxFrames == 48
MaxKickSpikes == 2
\* 0.125 (below the kick threshold) and 0.5
FluxValues == {FluxUnit \div 8, FluxUnit \div 2}

\* Frames around the interior: one before the first candidate up to the
\* first frame past the last candidate.
SpikeFrames(n) == (windowSize - 1)..(n - windowSize)

SpikeChoices(n, frames, most, values) ==
    UNION {[P -> values] : P \in {Q \in SUBSET (frames \cap (1..(n - 1))) : Cardinality(Q) <= most}}

\* A flux signal that stays at level after frame 0, with one frame at v
PedestalSignal(n, level, at, v) ==
    Array([k \in 1..n |-> IF k = 1 THEN 0 ELSE IF k - 1 = at THEN v ELSE level])

\* Kick signals with a spike on a low and on a high pedestal
PedestalChoices(n) ==
    {[kick |-> PedestalSignal(n, level, windowSize + 1, FluxUnit \div 2),
      snare |-> SparseSignal(n, <<>>), hihat |-> SparseSignal(n, <<>>)] :
        level \in {FluxUnit \div 4, (FluxUnit \div 2) - 2}}

\* The flux signals the frame loop can leave for an n-frame buffer: frame 0
\* has no predecessor and stays 0, every value is >= 0.
FluxChoices(n) ==
    IF n <= 0 THEN {NoFlux}
    ELSE PedestalChoices(n) \cup
         {[kick |-> SparseSignal(n, k), snare |-> SparseSignal(n, s),
           hihat |-> SparseSignal(n, h)] :
            k \in SpikeChoices(n, SpikeFrames(n), MaxKickSpikes, FluxValues),
            s \in SpikeChoices(n, {windowSize, windowSize + 2, windowSize + 3}, 1,
                               {FluxUnit \div 2}),
            h \in SpikeChoices(n, {windowSize + 1}, 1, {FluxUnit \div 2})}

\* A buffer given by its channel count, length and sample rate.  Its samples
\* are not enumerated: they are represented by what the frame loops compute
\* from them (the flux signals, the per-frame band and energy values), and
\* silent says that every sample is 0.
AbstractBuffer(channels, len, sampleRate, silent) ==
    [numberOfChannels |-> channels, sampleRate |-> sampleRate, length |-> len,
     silent |-> silent]

\* Buffers of 40, 41 and MaxFrames frames, and one shorter than a frame
BeatBuffers ==
    {AbstractBuffer(1, frameSize + hopSize * n + 100, r, FALSE) :
        n \in {2 * windowSize, 2 * windowSize + 1, MaxFrames}, r \in SampleRates}
    \cup {AbstractBuffer(1, frameSize - hopSize, r, FALSE) : r \in SampleRates}

InitBeats ==
    /\ pc = "call"
    /\ audioBuffer \in BeatBuffers
    /\ WaveIdle
    /\ BpmIdle
    /\ BeatIdle
    /\ BandIdle
    /\ ProgressIdle
    /\ CachesEmpty
    /\ NothingWritten
    /\ FirstRun
    /\ FftIdle
    /\ SignalsIdle

\* detectBeats(channelData, sampleRate) on a buffer of at least one frame
DetectBeats ==
    /\ pc = "call"
    /\ NumFrames(audioBuffer.length) >= 0
    /\ \E fl \in FluxChoices(NumFrames(audioBuffer.length)) :
          /\ flux' = fl
          /\ beats' = BeatsFromFlux(fl, audioBuffer.sampleRate)
    /\ windowCache' = windowCache \cup {frameSize}
    /\ twiddleCache' = twiddleCache \cup
            (IF NumFrames(audioBuffer.length) > 0 THEN {frameSize} ELSE {})
    /\ cached' = Requests(cached, <<WindowKey(frameSize)>> \o
            (IF NumFrames(audioBuffer.length) > 0 THEN <<TwiddleKey(frameSize)>> ELSE <<>>))
    /\ written' = written \cup
            detectBeatsWrites(MonoArray(audioBuffer), NumFrames(audioBuffer.length),
                              frameSize, twiddleCache, windowCache)
    /\ pc' = "returned"
    /\ UNCHANGED <<signalVars, runVars, fftVars, audioBuffer, waveVars, bpmVars, bandVars, progressVars>>

\* Below frameSize samples numFrames is negative and
\* "new Float32Array(numFrames)" throws a RangeError, before
\* createHannWindow is called
DetectBeatsThrows ==
    /\ pc = "call"
    /\ NumFrames(audioBuffer.length) < 0
    /\ pc' = "thrown"
    /\ UNCHANGED <<signalVars, runVars, fftVars, audioBuffer, waveVars, bpmVars, beatVars,
                   bandVars, progressVars, cacheVars, written>>

NextBeats ==
    \/ DetectBeats
    \/ DetectBeatsThrows

SpecBeats == InitBeats /\ [][NextBeats]_vars

\* startSample = frame * hopSize
BeatStartSample(frame) == frame * hopSize

\* The indices the frame asks channelData for: startSample + i for
\* 0 <= i < frameSize; an index past the end gives undefined, which
\* "|| 0" turns into 0
BeatFrameReads(frame) == BeatStartSample(frame)..(BeatStartSample(frame) + frameSize - 1)

\* C20: the beat detector covers the whole buffer with frames of 1024
\* samples starting every 512 samples: every sample index of the buffer
\* lies in at least one frame, and the last frame reaches the end of the
\* buffer or runs past it.
C20_FramesCoverBuffer ==
    pc = "returned" =>
        LET len == audioBuffer.length
            frames == 0..(Len(flux.kick) - 1)
        IN  /\ Len(flux.kick) = NumFrames(len)
            /\ \E f \in frames : len - 1 \in BeatFrameReads(f)
            /\ \A i \in 0..(len - 1) : \E f \in frames : i \in BeatFrameReads(f)

\* The sum of the frames i - 20 .. i + 20, taken frame by frame
WindowSum(signal, i) ==
    LET partial[j \in (i - windowSize - 1)..(i + windowSize)] ==
            IF j < i - windowSize THEN 0 ELSE partial[j - 1] + signal[j + 1]
    IN  partial[i + windowSize]

\* The indices the statement calls peaks of a signal of flux values
StatedPeaks(signal, threshold) ==
    {i \in 0..(Len(signal) - 1) :
        /\ windowSize <= i
        /\ i < Len(signal) - windowSize
        /\ signal[i + 1] * 100 > threshold * FluxUnit
        /\ signal[i + 1] * 2 * (2 * windowSize + 1) > 3 * WindowSum(signal, i)
        /\ signal[i + 1] > signal[i]
        /\ signal[i + 1] > signal[i + 2]}

\* The timeline holds one timestamp i * frameDuration per stated peak, none
\* before 20 hops or after n - 21 hops, and none for 40 frames or fewer
PeaksAsStated(timeline, signal, threshold, frameDuration) ==
    /\ {timeline[k] : k \in 1..Len(timeline)} =
            {i * frameDuration : i \in StatedPeaks(signal, threshold)}
    /\ Len(timeline) = Cardinality(StatedPeaks(signal, threshold))
    /\ \A k \in 1..Len(timeline) :
            /\ timeline[k] >= windowSize * frameDuration
            /\ timeline[k] <= (Len(signal) - windowSize - 1) * frameDuration
    /\ Len(signal) <= 2 * windowSize => timeline = <<>>

\* C21: findPeaks reports index i of a flux signal of n frames if and only
\* if 20 <= i < n - 20, signal[i] > max(threshold, 1.5 * mean of
\* signal[i-20..i+20]) and signal[i] is above both neighbours; so no
\* timestamp is before 20 hops or after n - 21 hops, and 40 frames or fewer
\* give no peak.
C21_PeaksExactlyAsStated ==
    pc = "returned" =>
        LET fd == FrameDuration(audioBuffer.sampleRate)
        IN  /\ PeaksAsStated(beats.kicks, flux.kick, kickThreshold, fd)
            /\ PeaksAsStated(beats.snares, flux.snare, snareThreshold, fd)
            /\ PeaksAsStated(beats.hihats, flux.hihat, hihatThreshold, fd)

\* A kick peak next to a frame that is above the fixed threshold and is no
\* peak
C21_Witness ==
    /\ pc = "returned"
    /\ Len(beats.kicks) = 1
    /\ \E i \in windowSize..(Len(flux.kick) - windowSize - 1) :
            /\ flux.kick[i + 1] * 100 > kickThreshold * FluxUnit
            /\ i \notin StatedPeaks(flux.kick, kickThreshold)

\* short is what is left of long after removing some of its entries
RECURSIVE IsSubsequence(_, _)
IsSubsequence(short, long) ==
    IF short = <<>> THEN TRUE
    ELSE IF long = <<>> THEN FALSE
    ELSE IF Head(short) = Head(long) THEN IsSubsequence(Tail(short), Tail(long))
    ELSE IsSubsequence(short, Tail(long))

Entries(list) == {list[k] : k \in 1..Len(list)}

\* C22: the returned kicks, snares and hihats are exactly the peak picker's
\* outputs for their flux signals, all is a subsequence of the ascending
\* sort of their concatenation, and every entry of all is a timestamp of
\* at least one category list.
C22_OnlyMergedListDeduplicated ==
    pc = "returned" =>
        LET fd == FrameDuration(audioBuffer.sampleRate)
        IN  /\ beats.kicks = findPeaks(flux.kick, fd, kickThreshold)
            /\ beats.snares = findPeaks(flux.snare, fd, snareThreshold)
            /\ beats.hihats = findPeaks(flux.hihat, fd, hihatThreshold)
            /\ IsSubsequence(beats.all,
                    SortAsc(beats.kicks \o beats.snares \o beats.hihats))
            /\ Entries(beats.all) \subseteq
                    Entries(beats.kicks) \cup Entries(beats.snares) \cup Entries(beats.hihats)

\* A kick, a snare one frame later and less than 50 ms away, and a hihat on
\* the frame of the kick: each in its own list, one entry in all
C22_Witness ==
    /\ pc = "returned"
    /\ Len(beats.kicks) = 1 /\ Len(beats.snares) = 1 /\ Len(beats.hihats) = 1
    /\ beats.snares[1] > beats.kicks[1]
    /\ (beats.snares[1] - beats.kicks[1]) * 100 <= 5 * TicksPerSecond
    /\ beats.hihats[1] = beats.kicks[1]
    /\ beats.all = <<beats.kicks[1]>>

\* The timestamps of the three category lists
Detected == Entries(beats.kicks) \cup Entries(beats.snares) \cup Entries(beats.hihats)

\* C25: the 50 ms scan loses no beat region: every timestamp t of kicks,
\* snares and hihats has an entry a of all with 0 <= t - a <= 0.05 s, the
\* first entry of all is the earliest timestamp of the three lists, and all
\* is empty only when the three lists are.
C25_EveryBeatWithin50msOfAll ==
    pc = "returned" =>
        /\ \A t \in Detected : \E k \in 1..Len(beats.all) :
                /\ t - beats.all[k] >= 0
                /\ (t - beats.all[k]) * 100 <= 5 * TicksPerSecond
        /\ (beats.all = <<>>) <=> (Detected = {})
        /\ beats.all # <<>> =>
                /\ beats.all[1] \in Detected
                /\ \A t \in Detected : beats.all[1] <= t

\* A timestamp dropped for being 46.9 ms after a kept entry, and one dropped
\* although the next kept entry is less than 50 ms after it
C25_Witness ==
    /\ pc = "returned"
    /\ \E t \in Detected \ Entries(beats.all) : \E k \in 1..Len(beats.all) :
           /\ t - beats.all[k] > 0
           /\ (t - beats.all[k]) * 100 > 4 * TicksPerSecond
           /\ (t - beats.all[k]) * 100 <= 5 * TicksPerSecond
    /\ \E t \in Detected \ Entries(beats.all) : \E k \in 1..Len(beats.all) :
           /\ beats.all[k] - t > 0
           /\ (beats.all[k] - t) * 100 <= 5 * TicksPerSecond

StrictlyIncreasing(list) ==
    \A i \in 1..(Len(list) - 1) : list[i] < list[i + 1]

\* C1: no two consecutive entries of the returned all timeline are 50 ms or
\* less apart: all[i+1] - all[i] > 0.05 s for every i.
C1_AllGapAbove50ms ==
    pc = "returned" =>
        \A i \in 1..(Len(beats.all) - 1) :
            (beats.all[i + 1] - beats.all[i]) * 100 > 5 * TicksPerSecond

\* Two kept beats, and a detected peak that the 50 ms scan dropped
C1_Witness ==
    /\ pc = "returned"
    /\ Len(beats.all) >= 2
    /\ Len(beats.all) < Len(beats.kicks) + Len(beats.snares) + Len(beats.hihats)
    /\ \E i \in 1..(Len(beats.kicks) - 1) :
          beats.kicks[i + 1] - beats.kicks[i] > 0
          /\ (beats.kicks[i + 1] - beats.kicks[i]) * 100 <= 5 * TicksPerSecond

\* C2: each of kicks, snares, hihats and all is strictly increasing.
C2_TimelinesStrictlyIncreasing ==
    pc = "returned" =>
        /\ StrictlyIncreasing(beats.kicks)
        /\ StrictlyIncreasing(beats.snares)
        /\ StrictlyIncreasing(beats.hihats)
        /\ StrictlyIncreasing(beats.all)

\* Two kicks, and a snare on the frame of a kick
C2_Witness ==
    /\ pc = "returned"
    /\ Len(beats.kicks) = 2
    /\ Len(beats.snares) = 1
    /\ beats.snares[1] = beats.kicks[1]
    /\ Len(beats.all) = 2

\* ---------------------------------------------- analyzeFrequencyAndEnergy
SAMPLE_RATE == 30
FFT_SIZE == 2048
\* BANDS: [low, high] in Hz
BANDS == [sub |-> <<20, 60>>, bass |-> <<60, 250>>,
          mid |-> <<250, 2000>>, high |-> <<2000, 20000>>]
BandNames == {"sub", "bass", "mid", "high"}

\* Math.floor((channelData.length / sampleRate) * SAMPLE_RATE): the product is
\* within a few 2^-53 of len * SAMPLE_RATE / sampleRate, so that its floor is
\* the floor of that rational unless the rational is a whole number, where
\* the rounding of the quotient and of the product decides
NumSamples(len, sampleRate) ==
    IF (len * SAMPLE_RATE) % sampleRate = 0
    THEN Floor(Product(Ratio(len, sampleRate), SAMPLE_RATE))
    ELSE FloorDiv(len * SAMPLE_RATE, sampleRate)

\* Math.floor(channelData.length / numSamples), for numSamples > 0
SamplesPerFrame(len, sampleRate) == FloorDiv(len, NumSamples(len, sampleRate))

\* startSample = frame * samplesPerFrame
BandStartSample(frame, len, sampleRate) == frame * SamplesPerFrame(len, sampleRate)

\* copyLen = Math.min(fftSize, channelData.length - startSample)
CopyLen(frame, len, sampleRate) ==
    Min(FFT_SIZE, len - BandStartSample(frame, len, sampleRate))

\* The indices of channelData the frame reads: startSample + i for
\* 0 <= i < copyLen, in the windowing loop and again in the rms loop
BandFrameReads(frame, len, sampleRate) ==
    {BandStartSample(frame, len, sampleRate) + i :
        i \in 0..(CopyLen(frame, len, sampleRate) - 1)}

\* bandBins[band], with binFrequency = sampleRate / fftSize and binCount = fftSize / 2
BandStart(band, sampleRate) == FloorDiv(BANDS[band][1] * FFT_SIZE, sampleRate)
BandEnd(band, sampleRate) ==
    Min(CeilDiv(BANDS[band][2] * FFT_SIZE, sampleRate), (FFT_SIZE \div 2) - 1)

\* end - start + 1, the divisor of the band's mean
BandBinCount(band, sampleRate) ==
    BandEnd(band, sampleRate) - BandStart(band, sampleRate) + 1

\* frequency[band][frame] = Math.min(1, Math.sqrt(sum / (end - start + 1)) * 4),
\* in units of 1/Unit.  raw is what the expression yields for the frame's
\* magnitudes when the band holds bins: a value in [0, 1].  With no bin
\* (start = end + 1) it is sqrt(0 / 0) = NaN; with start > end + 1 the empty
\* sum over a negative count is -0.
BandValue(band, sampleRate, raw) ==
    IF BandBinCount(band, sampleRate) = 0 THEN NaN
    ELSE IF BandBinCount(band, sampleRate) < 0 THEN 0
    ELSE raw

\* a > b of the source: false when either side is NaN
Greater(a, b) == ~IsNaN(a) /\ ~IsNaN(b) /\ a > b

\* What the scan "if (arr[i] > max) max = arr[i]" from max = 0 leaves after
\* arr[lo..hi]: the largest value above 0 that is not NaN, else 0.  Computed
\* by halves; the later half wins only when strictly greater, as in the scan.
RECURSIVE ArrayMax(_, _, _)
ArrayMax(arr, lo, hi) ==
    IF lo > hi THEN 0
    ELSE IF lo = hi THEN (IF Greater(arr[lo], 0) THEN arr[lo] ELSE 0)
    ELSE LET half == (lo + hi) \div 2
             first == ArrayMax(arr, lo, half)
             second == ArrayMax(arr, half + 1, hi)
         IN  IF Greater(second, first) THEN second ELSE first

\* arr[i] / max, in units of 1/Unit
Quotient(a, max) == IF IsNaN(a) THEN NaN ELSE (a * Unit) \div max

normalizeArray(arr) ==
    LET max == ArrayMax(arr, 1, Len(arr))
    IN  IF max > 0
        THEN Array([i \in 1..Len(arr) |-> Quotient(arr[i], max)])
        ELSE arr

\* What the frame loop leaves for one buffer: raw holds, per series, the
\* values the frames' samples give.
analyzeFrequencyAndEnergy(sampleRate, raw) ==
    [frequency |->
        [band \in BandNames |->
            normalizeArray(Array([f \in 1..Len(raw[band]) |->
                BandValue(band, sampleRate, raw[band][f])]))],
     energy |-> normalizeArray(raw.energy)]

MaxBandFrames == 2
BandSampleRates == {3000, 4000, 8192, 44100}

\* A buffer of k and a half analysis frames
BandBuffers ==
    {AbstractBuffer(1, (r * (2 * k + 1)) \div (2 * SAMPLE_RATE), r, FALSE) :
        k \in 0..MaxBandFrames, r \in BandSampleRates}

\* Per-frame values in [0, 1] (units of 1/Unit), before normalization
RawChoices(n) ==
    {[sub |-> a, bass |-> b, mid |-> c, high |-> d, energy |-> e] :
        a \in SeqsOfLen({0, Unit}, n), b \in SeqsOfLen({0, Unit \div 2}, n),
        c \in SeqsOfLen({Unit \div 2}, n), d \in SeqsOfLen({0, Unit \div 4}, n),
        e \in SeqsOfLen({0, Unit \div 4, Unit}, n)}

InitBands ==
    /\ pc = "call"
    /\ audioBuffer \in BandBuffers
    /\ WaveIdle
    /\ BpmIdle
    /\ BeatIdle
    /\ BandIdle
    /\ ProgressIdle
    /\ CachesEmpty
    /\ NothingWritten
    /\ FirstRun
    /\ FftIdle
    /\ SignalsIdle

AnalyzeFrequencyAndEnergy ==
    /\ pc = "call"
    /\ \E raw \in RawChoices(NumSamples(audioBuffer.length, audioBuffer.sampleRate)) :
          LET res == analyzeFrequencyAndEnergy(audioBuffer.sampleRate, raw)
          IN  /\ frequency' = res.frequency
              /\ energy' = res.energy
    /\ windowCache' = windowCache \cup {FFT_SIZE}
    /\ twiddleCache' = twiddleCache \cup
            (IF NumSamples(audioBuffer.length, audioBuffer.sampleRate) > 0
             THEN {FFT_SIZE} ELSE {})
    /\ cached' = Requests(cached, <<WindowKey(FFT_SIZE)>> \o
            (IF NumSamples(audioBuffer.length, audioBuffer.sampleRate) > 0
             THEN <<TwiddleKey(FFT_SIZE)>> ELSE <<>>))
    /\ written' = written \cup
            analyzeFrequencyAndEnergyWrites(MonoArray(audioBuffer),
                NumSamples(audioBuffer.length, audioBuffer.sampleRate),
                FFT_SIZE, twiddleCache, windowCache)
    /\ pc' = "returned"
    /\ UNCHANGED <<signalVars, runVars, fftVars, audioBuffer, waveVars, bpmVars, beatVars, progressVars>>

NextBands == AnalyzeFrequencyAndEnergy

SpecBands == InitBands /\ [][NextBands]_vars

\* C19: the band energy extractor splits the buffer into
\* floor((L / R) * 30) frames that do not overlap: frame k reads only the
\* samples [k * samplesPerFrame, (k + 1) * samplesPerFrame), and no sample
\* is read by two frames.
C19_FramesDoNotOverlap ==
    pc = "returned" =>
        LET len == audioBuffer.length
            rate == audioBuffer.sampleRate
            frames == 0..(Len(energy) - 1)
        IN  /\ Len(energy) = NumSamples(len, rate)
            /\ \A k \in frames :
                    BandFrameReads(k, len, rate) \subseteq
                        BandStartSample(k, len, rate)..(BandStartSample(k + 1, len, rate) - 1)
            /\ \A j \in frames : \A k \in frames :
                    j # k => BandFrameReads(j, len, rate) \cap BandFrameReads(k, len, rate) = {}

\* Every value in [0, 1], and one of them 1 unless all are 0
Normalized(series) ==
    /\ \A i \in 1..Len(series) : ~IsNaN(series[i]) /\ 0 <= series[i] /\ series[i] <= Unit
    /\ \/ \E i \in 1..Len(series) : series[i] = Unit
       \/ \A i \in 1..Len(series) : series[i] = 0

\* C5: for every non-empty buffer and every sample rate each of the five
\* returned series has all its values in [0, 1] and holds a value equal to 1
\* unless it is 0 throughout.
C5_SeriesNormalized ==
    (pc = "returned" /\ audioBuffer.length > 0) =>
        /\ \A band \in BandNames : Normalized(frequency[band])
        /\ Normalized(energy)

\* ----------------------------------------------------------- analyzeAudio
\* A progress value as a fraction <<numerator, denominator>>.
Frac(n, d) == <<n, d>>
LeqFrac(a, b) == a[1] * b[2] <= b[1] * a[2]
EqFrac(a, b) == a[1] * b[2] = b[1] * a[2]

freqProgressEvery == 100
beatProgressEvery == 500

\* The calls analyzeFrequencyAndEnergy makes for n frames, as analyzeAudio
\* forwards them: 0.1 + (frame / numSamples) * 0.4 at every 100th frame.
FreqProgressCalls(n) ==
    [k \in 1..CeilDiv(n, freqProgressEvery) |->
        Frac(n + 4 * freqProgressEvery * (k - 1), 10 * n)]

\* mutation: the beat phase scaled over 0.5 instead of 0.4
BeatProgressCalls_wideScale(m) ==
    [k \in 1..CeilDiv(m, beatProgressEvery) |->
        Frac(5 * m + 5 * beatProgressEvery * (k - 1), 10 * m)]

\* The calls detectBeats makes for m frames, as analyzeAudio forwards them:
\* 0.5 + (frame / numFrames) * 0.4 at every 500th frame.
BeatProgressCalls(m) ==
    [k \in 1..CeilDiv(m, beatProgressEvery) |->
        Frac(5 * m + 4 * beatProgressEvery * (k - 1), 10 * m)]

\* audioBuffer.duration in whole ticks (estimateBPM receives it and does not read it)
Duration(buf) == FloorDiv(buf.length * TicksPerSecond, buf.sampleRate)

\* "if (onProgress) onProgress(v)" for each v of values, in order
Report(given, log, values) == IF given THEN log \o values ELSE log

MaxThrowAt == 6

\* The calls of the callback that analyzeAudio makes from position p on, up
\* to its next position: the phase's own calls, then the milestone.
PhaseCalls(p, buf) ==
    IF p = "call" THEN <<Frac(1, 10)>>
    ELSE IF p = "frequency"
    THEN FreqProgressCalls(NumSamples(buf.length, buf.sampleRate)) \o <<Frac(5, 10)>>
    ELSE IF p = "beats"
    THEN BeatProgressCalls(NumFrames(buf.length)) \o <<Frac(9, 10)>>
    ELSE <<Frac(1, 1)>>

\* Does the callback throw in one of the calls values, made after log?
Throws(given, at, log, values) ==
    given /\ at \in (Len(log) + 1)..(Len(log) + Len(values))

\* mutation: the error of the callback is held back until the phase is over
CallsMade_heldBack(log, values, at) == log \o values

\* The calls made when the callback throws in call number at: the error
\* leaves analyzeAudio at once, so that call is the last one
CallsMade(log, values, at) == SubSeq(log \o values, 1, at)

\* n frames that all hold the value v
Steady(n, v) == Array([k \in 1..n |-> v])

\* The per-frame values of the run's buffer: 0 for silence, else one of a
\* few steady levels.
RunRawChoices(buf) ==
    LET n == NumSamples(buf.length, buf.sampleRate)
        level(v) == [sub |-> Steady(n, v), bass |-> Steady(n, v \div 2),
                     mid |-> Steady(n, v), high |-> Steady(n, 0),
                     energy |-> Steady(n, v)]
    IN  IF n <= 0 THEN {level(0)}
        ELSE IF buf.silent THEN {level(0)}
        ELSE {level(Unit \div 2), level(Unit)}

MaxRunBeats == 5

\* A flux signal of n frames with up to count spikes, period frames apart
PeriodicSignal(n, first, period, count) ==
    SparseSignal(n, [f \in {first + period * j : j \in 0..(count - 1)} \cap (1..(n - 1))
                        |-> FluxUnit \div 2])

\* The flux signals of the run's buffer: 0 for silence, else a train of
\* kicks, alone or with snares on every other kick.
RunFluxChoices(buf) ==
    LET m == NumFrames(buf.length)
        zero == SparseSignal(m, <<>>)
        train(period, count) == PeriodicSignal(m, windowSize + 1, period, count)
    IN  IF m <= 0 THEN {NoFlux}
        ELSE IF buf.silent THEN {[kick |-> zero, snare |-> zero, hihat |-> zero]}
        ELSE {[kick |-> train(p, c), snare |-> sn, hihat |-> zero] :
                p \in {6, 8}, c \in {3, MaxRunBeats},
                sn \in {zero, train(12, 2)}}

\* 270000 samples: more than 100 analysis frames and more than 500 beat frames
RunLengths ==
    {0, 500, frameSize - 1, frameSize, frameSize + 300, frameSize + hopSize * 44, 270000}

\* Five seconds of silence
SilentBuffers == {AbstractBuffer(1, 5 * r, r, TRUE) : r \in {4000, 8192, 32768}}

\* The scenario of four clicks: 10 s at 44100 Hz, one-sample clicks at 0.0,
\* 0.5, 1.0 and 1.5 s
ClickRate == 441 * 100
ClickSamples == {0, ClickRate \div 2, ClickRate, (3 * ClickRate) \div 2}
ClickShape == AbstractBuffer(1, 10 * ClickRate, ClickRate, FALSE)

\* The frames, of the given size and spacing, that hold a click
FramesWithClick(size, spacing) ==
    {f \in 0..(((3 * ClickRate) \div 2) \div spacing) :
        \E c \in ClickSamples : spacing * f <= c /\ c < spacing * f + size}

\* The index in its frame of the click that frame f holds, for frames less
\* than half a second long: startSample + i is the click's sample
ClickIndex(f, size, spacing) ==
    (CHOOSE c \in ClickSamples : spacing * f <= c /\ c < spacing * f + size) - spacing * f

\* The frames in which the windowed click is not 0: window[0] and
\* window[size - 1] of createHannWindow are 0
FramesHearingClick(size, spacing) ==
    {f \in FramesWithClick(size, spacing) :
        ClickIndex(f, size, spacing) \notin {0, size - 1}}

\* The band and energy values of the click buffer, before normalization.
\* The spectrum of a frame with one click is flat, |click * window[i]| / N in
\* every bin, and all analysis frames that hold a click off their first
\* sample hold it at the same index: the bands have one value there and 0
\* elsewhere.  The rms is taken from the samples without the window: one
\* value in every frame that holds a click.
ClickRaw ==
    LET n == NumSamples(ClickShape.length, ClickRate)
        spf == ClickShape.length \div n
        series(frames, v) == Array([k \in 1..n |-> IF (k - 1) \in frames THEN v ELSE 0])
        heard == FramesHearingClick(FFT_SIZE, spf)
    IN  [sub |-> series(heard, Unit \div 4), bass |-> series(heard, Unit \div 4),
         mid |-> series(heard, Unit \div 4), high |-> series(heard, Unit \div 4),
         energy |-> series(FramesWithClick(FFT_SIZE, spf), Unit \div 4)]

\* window[i] of createHannWindow(frameSize) in thousandths, rounded down, at
\* the indices the clicks take in the frames of detectBeats
ClickWindow ==
    (0 :> 0) @@ (34 :> 10) @@ (68 :> 42) @@ (102 :> 94) @@
    (546 :> 988) @@ (580 :> 956) @@ (614 :> 904)
PerMille == 10 * 10 * 10
\* The height of the clicks, in tenths of full scale; a click of the
\* opposite sign has the same magnitudes
ClickHeights == {2, 5, 10}

\* magnitudes[bin] of frame f, the same in every bin, in units of
\* 1 / (10 * PerMille * frameSize)
ClickMagnitude(f, height) ==
    IF f \in FramesWithClick(frameSize, hopSize)
    THEN height * ClickWindow[ClickIndex(f, frameSize, hopSize)]
    ELSE 0

\* magnitudes.slice(start, end).length for start, end >= 0: both ends are
\* clamped to the length of the array, and an end before the start gives
\* the empty array
SliceLength(start, end, len) ==
    IF Min(end, len) > Min(start, len) THEN Min(end, len) - Min(start, len) ELSE 0

\* The lengths of kickSpectrum, snareSpectrum and hihatSpectrum:
\* magnitudes.slice(start, end) with binFreq = sampleRate / frameSize and
\* frameSize / 2 magnitudes
KickBinCount(sampleRate) ==
    SliceLength(FloorDiv(40 * frameSize, sampleRate),
                CeilDiv(120 * frameSize, sampleRate), frameSize \div 2)
SnareBinCount(sampleRate) ==
    SliceLength(FloorDiv(120 * frameSize, sampleRate),
                CeilDiv(500 * frameSize, sampleRate), frameSize \div 2)
HihatBinCount(sampleRate) ==
    SliceLength(FloorDiv(5000 * frameSize, sampleRate),
                Min(CeilDiv(15000 * frameSize, sampleRate), (frameSize \div 2) - 1),
                frameSize \div 2)

\* spectralFlux of frame f over a spectrum of count bins, in units of
\* 1 / FluxUnit rounded down: the rise of the magnitude in every bin; frame
\* 0 has no predecessor
ClickFluxAt(f, count, height) ==
    LET rise == ClickMagnitude(f, height) - ClickMagnitude(f - 1, height)
    IN  IF f = 0 \/ rise <= 0 THEN 0
        ELSE (count * rise * FluxUnit) \div (10 * PerMille * frameSize)

\* A flux signal of the click buffer: 0 except in the frames with a click
ClickFlux(count, height) ==
    SparseSignal(NumFrames(ClickShape.length),
        [f \in FramesWithClick(frameSize, hopSize) \ {0} |-> ClickFluxAt(f, count, height)])

ClickFluxChoices ==
    {[kick |-> ClickFlux(KickBinCount(ClickRate), height),
      snare |-> ClickFlux(SnareBinCount(ClickRate), height),
      hihat |-> ClickFlux(HihatBinCount(ClickRate), height)] : height \in ClickHeights}

\* A buffer with its samples.  The samples are written down as what the
\* arithmetic of the two frame loops makes of them with the window and the
\* twiddle factors of the loop's frame size: raw holds the band and rms values
\* of the frames of analyzeFrequencyAndEnergy before normalization, flux the
\* three flux signals of detectBeats.
Recorded(buf, raw, fl) ==
    [numberOfChannels |-> buf.numberOfChannels, sampleRate |-> buf.sampleRate,
     length |-> buf.length, silent |-> buf.silent, raw |-> raw, flux |-> fl]

\* The buffers of the given shapes, with every content the shape allows
WithContents(shapes) ==
    UNION {{Recorded(buf, raw, fl) :
                raw \in RunRawChoices(buf), fl \in RunFluxChoices(buf)} :
           buf \in shapes}

ClickBuffers == {Recorded(ClickShape, ClickRaw, fl) : fl \in ClickFluxChoices}

\* Three peaks in frames that follow one another at 10240 Hz, where the hop
\* is 0.05 s, and a buffer of 4.1 s at 3000 Hz, where duration * SAMPLE_RATE
\* is a whole number in exact arithmetic
EdgeRate == hopSize * 20
EdgeFlux ==
    LET m == 2 * windowSize + 4
        spike(f) == SparseSignal(m, (f :> (FluxUnit \div 2)))
    IN  [kick |-> spike(windowSize + 1), snare |-> spike(windowSize + 2),
         hihat |-> spike(windowSize + 3)]
EdgeBuffers ==
    LET shape == AbstractBuffer(1, frameSize + hopSize * (2 * windowSize + 4), EdgeRate, FALSE)
    IN  {Recorded(shape, raw, EdgeFlux) : raw \in RunRawChoices(shape)}
        \cup WithContents({AbstractBuffer(1, 41 * 300, 3000, FALSE)})

RunBuffers ==
    ClickBuffers \cup EdgeBuffers \cup
    WithContents({AbstractBuffer(c, len, r, sil) :
                    c \in {1, 2}, len \in RunLengths, r \in {8192, 32768},
                    sil \in BOOLEAN}
                 \cup SilentBuffers)

Init ==
    /\ pc = "call"
    /\ audioBuffer \in RunBuffers
    /\ onProgress \in BOOLEAN
    /\ throwAt \in (IF onProgress THEN 0..MaxThrowAt ELSE {0})
    /\ progress = <<>>
    /\ CachesEmpty
    /\ NothingWritten
    /\ FirstRun
    /\ FftIdle
    /\ SignalsIdle
    /\ WaveIdle
    /\ BpmIdle
    /\ BeatIdle
    /\ BandIdle

\* The calls of getTwiddleFactors and createHannWindow the phase at position
\* p makes, in order (repeated calls for a key left out after the second).
\* All of them come before the phase's first progress report, or find
\* their entry.
PhaseRequests(p, buf) ==
    IF p = "call" THEN <<TwiddleKey(FFT_SIZE), TwiddleKey(frameSize)>>
    ELSE IF p = "frequency"
    THEN <<WindowKey(FFT_SIZE)>> \o
         (IF NumSamples(buf.length, buf.sampleRate) > 0
          THEN <<TwiddleKey(FFT_SIZE), TwiddleKey(FFT_SIZE)>> ELSE <<>>)
    ELSE IF p = "beats"
    THEN <<WindowKey(frameSize)>> \o
         (IF NumFrames(buf.length) > 0
          THEN <<TwiddleKey(frameSize), TwiddleKey(frameSize)>> ELSE <<>>)
    ELSE <<>>

\* window[i] for every i the windowing loop reads is an entry of the table
WindowCovers(window, copyLen) == Len(window) >= copyLen

\* cos[j * step] and sin[j * step] for every index fft reads, up to
\* N / 2 - 1, is an entry of the table
TwiddlesCover(twiddles, N) == Len(twiddles.cos) >= N \div 2 /\ Len(twiddles.sin) >= N \div 2

\* The frames of analyzeFrequencyAndEnergy computed with the window and the
\* twiddle factors the caches hand out, before normalization.  With the
\* tables of FFT_SIZE they are the buffer's raw values.  A window that ends
\* before copyLen gives undefined there, so the frame holds NaN and so does
\* every magnitude; twiddle factors that end before N / 2 give NaN in every
\* bin but bin 0, and no band is bin 0 alone.  Other tables that are long
\* enough give values that are not tracked, and the same zeros for
\* silence.  The rms is taken from the samples and no table.
FrameSpectra(buf, window, twiddles) ==
    IF window = HannTable(FFT_SIZE) /\ twiddles = getTwiddleFactors(FFT_SIZE)
    THEN buf.raw
    ELSE LET samplesPerFrame == SamplesPerFrame(buf.length, buf.sampleRate)
             copyLen(frame) == Min(FFT_SIZE, buf.length - frame * samplesPerFrame)
             values ==
                Array([k \in 1..Len(buf.raw.energy) |->
                    IF ~WindowCovers(window, copyLen(k - 1))
                       \/ ~TwiddlesCover(twiddles, FFT_SIZE)
                    THEN NaN
                    ELSE IF buf.silent THEN 0
                    ELSE Inexact])
         IN  [series \in DOMAIN buf.raw |->
                IF series = "energy" THEN buf.raw.energy ELSE values]

\* kickBins.start, snareBins.start and hihatBins.start
FluxBinStart(signal, sampleRate) ==
    FloorDiv((IF signal = "kick" THEN 40 ELSE IF signal = "snare" THEN 120 ELSE 5000)
             * frameSize, sampleRate)

\* The length of the spectrum a flux signal is taken from
FluxBinCount(signal, sampleRate) ==
    IF signal = "kick" THEN KickBinCount(sampleRate)
    ELSE IF signal = "snare" THEN SnareBinCount(sampleRate)
    ELSE HihatBinCount(sampleRate)

\* The flux signals of detectBeats computed with the window and the twiddle
\* factors the caches hand out.  With the tables of frameSize they are the
\* buffer's flux.  A window that ends before frameSize gives NaN in every
\* magnitude, and "diff > 0" is false for NaN: the flux is 0.  Twiddle
\* factors that end before N / 2 give NaN in every bin but bin 0: the flux
\* is 0 unless the spectrum starts at bin 0.  Other tables give values that
\* are not tracked, and 0 for silence, in frame 0, which has no
\* predecessor, and for an empty spectrum.
FrameFlux(buf, window, twiddles) ==
    IF window = HannTable(frameSize) /\ twiddles = getTwiddleFactors(frameSize)
    THEN buf.flux
    ELSE [signal \in DOMAIN buf.flux |->
            Array([k \in 1..Len(buf.flux[signal]) |->
                IF ~WindowCovers(window, frameSize) THEN 0
                ELSE IF buf.silent \/ k = 1 \/ FluxBinCount(signal, buf.sampleRate) = 0
                THEN 0
                ELSE IF ~TwiddlesCover(twiddles, frameSize)
                        /\ FluxBinStart(signal, buf.sampleRate) > 0 THEN 0
                ELSE Inexact])]

\* Every value of the flux signals is tracked
Tracked(fl) ==
    \A signal \in DOMAIN fl : \A k \in 1..Len(fl[signal]) : fl[signal][k] # Inexact

\* Timestamps that are not tracked
NotTracked == <<Inexact>>

\* detectBeats after its frame loop: the peaks of the flux signals
BeatsFound(fl, sampleRate) ==
    IF Tracked(fl) THEN BeatsOf(fl, sampleRate)
    ELSE [all |-> NotTracked, kicks |-> NotTracked, snares |-> NotTracked,
          hihats |-> NotTracked]

\* estimateBPM(beats.all, audioBuffer.duration)
TempoOf(found, buf) ==
    IF found.all = NotTracked THEN Inexact
    ELSE estimateBPM(found.all, Duration(buf), TimeBase(buf.sampleRate))

\* The arrays the phase at position p may assign to
PhaseWrites(p, buf, twiddles, windows) ==
    IF p = "call"
    THEN getMonoWrites(buf) \cup getTwiddleFactorsWrites(twiddles, FFT_SIZE)
         \cup getTwiddleFactorsWrites(twiddles, frameSize)
    ELSE IF p = "frequency"
    THEN analyzeFrequencyAndEnergyWrites(MonoArray(buf),
            NumSamples(buf.length, buf.sampleRate), FFT_SIZE, twiddles, windows)
    ELSE IF p = "beats"
    THEN detectBeatsWrites(MonoArray(buf), NumFrames(buf.length), frameSize,
                           twiddles, windows)
    ELSE estimateBPMWrites

\* analyzeAudio up to the first progress report: the mono mix, the two
\* getTwiddleFactors calls, onProgress(0.1).
BeginReady ==
    /\ pc = "call"
    /\ ~Throws(onProgress, throwAt, progress, PhaseCalls(pc, audioBuffer))

Begin ==
    /\ BeginReady
    /\ twiddleCache' = twiddleCache \cup {FFT_SIZE, frameSize}
    /\ progress' = Report(onProgress, progress, <<Frac(1, 10)>>)
    /\ cached' = Requests(cached, PhaseRequests(pc, audioBuffer))
    /\ written' = written \cup PhaseWrites(pc, audioBuffer, twiddleCache, windowCache)
    /\ pc' = "frequency"
    /\ UNCHANGED <<signalVars, runVars, fftVars, audioBuffer, onProgress, throwAt, windowCache, waveVars, bpmVars,
                   beatVars, bandVars>>

\* analyzeFrequencyAndEnergy with its progress calls, then onProgress(0.5)
FrequencyPhaseReady ==
    /\ pc = "frequency"
    /\ ~Throws(onProgress, throwAt, progress, PhaseCalls(pc, audioBuffer))

FrequencyPhase ==
    /\ FrequencyPhaseReady
    /\ LET window == Entry(cached, WindowKey(FFT_SIZE))
           twiddles == Entry(cached, TwiddleKey(FFT_SIZE))
           res == analyzeFrequencyAndEnergy(audioBuffer.sampleRate,
                                            FrameSpectra(audioBuffer, window, twiddles))
       IN  /\ frequency' = res.frequency
           /\ energy' = res.energy
    /\ windowCache' = windowCache \cup {FFT_SIZE}
    /\ progress' = Report(onProgress, progress,
            FreqProgressCalls(NumSamples(audioBuffer.length, audioBuffer.sampleRate))
            \o <<Frac(5, 10)>>)
    /\ cached' = Requests(cached, PhaseRequests(pc, audioBuffer))
    /\ written' = written \cup PhaseWrites(pc, audioBuffer, twiddleCache, windowCache)
    /\ pc' = "beats"
    /\ UNCHANGED <<signalVars, runVars, fftVars, audioBuffer, onProgress, throwAt, twiddleCache, waveVars, bpmVars, beatVars>>

\* detectBeats with its progress calls, then onProgress(0.9)
BeatPhaseReady ==
    /\ pc = "beats"
    /\ NumFrames(audioBuffer.length) >= 0
    /\ ~Throws(onProgress, throwAt, progress, PhaseCalls(pc, audioBuffer))

BeatPhase ==
    /\ BeatPhaseReady
    /\ LET window == Entry(cached, WindowKey(frameSize))
           twiddles == Entry(cached, TwiddleKey(frameSize))
           fl == FrameFlux(audioBuffer, window, twiddles)
       IN  /\ flux' = fl
           /\ beats' = BeatsFound(fl, audioBuffer.sampleRate)
    /\ windowCache' = windowCache \cup {frameSize}
    /\ progress' = Report(onProgress, progress,
            BeatProgressCalls(NumFrames(audioBuffer.length)) \o <<Frac(9, 10)>>)
    /\ cached' = Requests(cached, PhaseRequests(pc, audioBuffer))
    /\ written' = written \cup PhaseWrites(pc, audioBuffer, twiddleCache, windowCache)
    /\ pc' = "bpm"
    /\ UNCHANGED <<signalVars, runVars, fftVars, audioBuffer, onProgress, throwAt, twiddleCache, waveVars, bpmVars, bandVars>>

\* new Float32Array(numFrames) with numFrames < 0 throws a RangeError, which
\* analyzeAudio does not catch
BeatPhaseThrowsReady ==
    /\ pc = "beats"
    /\ NumFrames(audioBuffer.length) < 0

BeatPhaseThrows ==
    /\ BeatPhaseThrowsReady
    /\ pc' = "thrown"
    /\ UNCHANGED <<signalVars, runVars, written, fftVars, audioBuffer, progressVars, cacheVars, waveVars, bpmVars,
                   beatVars, bandVars>>

\* estimateBPM(beats.all, duration), onProgress(1.0) and the return
BpmPhaseReady ==
    /\ pc = "bpm"
    /\ ~Throws(onProgress, throwAt, progress, PhaseCalls(pc, audioBuffer))

BpmPhase ==
    /\ BpmPhaseReady
    /\ bpm' = TempoOf(beats, audioBuffer)
    /\ beatList' = beats.all
    /\ progress' = Report(onProgress, progress, <<Frac(1, 1)>>)
    /\ written' = written \cup PhaseWrites(pc, audioBuffer, twiddleCache, windowCache)
    /\ pc' = "returned"
    /\ UNCHANGED <<signalVars, runVars, fftVars, audioBuffer, onProgress, throwAt, cacheVars, waveVars, beatVars, bandVars>>

\* The callback throws: analyzeAudio has no try, so the error leaves it in
\* the middle of the phase, whose arrays are dropped.  The cache entries the
\* phase asked for before its first call stay.
CallbackThrowsReady ==
    /\ pc \in {"call", "frequency", "beats", "bpm"}
    /\ pc = "beats" => NumFrames(audioBuffer.length) >= 0
    /\ Throws(onProgress, throwAt, progress, PhaseCalls(pc, audioBuffer))

CallbackThrows ==
    /\ CallbackThrowsReady
    /\ progress' = CallsMade(progress, PhaseCalls(pc, audioBuffer), throwAt)
    /\ twiddleCache' = twiddleCache \cup
            (IF pc = "call" THEN {FFT_SIZE, frameSize} ELSE {})
    /\ windowCache' = windowCache \cup
            (IF pc = "frequency" THEN {FFT_SIZE}
             ELSE IF pc = "beats" THEN {frameSize} ELSE {})
    /\ cached' = Requests(cached, PhaseRequests(pc, audioBuffer))
    /\ written' = written \cup PhaseWrites(pc, audioBuffer, twiddleCache, windowCache)
    /\ pc' = "thrown"
    /\ UNCHANGED <<signalVars, runVars, fftVars, audioBuffer, onProgress, throwAt, waveVars, bpmVars,
                   beatVars, bandVars>>

Next ==
    \/ Begin
    \/ FrequencyPhase
    \/ BeatPhase
    \/ BeatPhaseThrows
    \/ BpmPhase
    \/ CallbackThrows

Spec == Init /\ [][Next]_vars

\* Indices i < j < k < l of the log that hold 0.1, 0.5, 0.9 and 1.0
MilestonesInOrder(log) ==
    \E i, j, k \in 1..Len(log) :
        /\ i < j /\ j < k /\ k < Len(log)
        /\ EqFrac(log[i], Frac(1, 10))
        /\ EqFrac(log[j], Frac(5, 10))
        /\ EqFrac(log[k], Frac(9, 10))
        /\ EqFrac(log[Len(log)], Frac(1, 1))

\* C6: in a completed run with a callback the reported values never
\* decrease, all lie in [0, 1], the milestones 0.1, 0.5, 0.9, 1.0 are
\* reported in that order and 1.0 is the last value.
C6_ProgressMonotone ==
    (pc = "returned" /\ onProgress) =>
        /\ \A i \in 1..(Len(progress) - 1) : LeqFrac(progress[i], progress[i + 1])
        /\ \A i \in 1..Len(progress) :
              LeqFrac(Frac(0, 1), progress[i]) /\ LeqFrac(progress[i], Frac(1, 1))
        /\ MilestonesInOrder(progress)

\* A completed run whose two phases both reported between the milestones
C6_Witness ==
    /\ pc = "returned"
    /\ onProgress
    /\ \E i \in 1..Len(progress) :
          ~LeqFrac(progress[i], Frac(1, 10)) /\ ~LeqFrac(Frac(5, 10), progress[i])
    /\ \E i \in 1..Len(progress) :
          ~LeqFrac(progress[i], Frac(5, 10)) /\ ~LeqFrac(Frac(9, 10), progress[i])

\* C11: analyzeAudio on a zero-length buffer never returns a result: the run
\* gets no further than beat detection, where it ends in an error.
C11_EmptyBufferFails ==
    audioBuffer.length = 0 => pc \in {"call", "frequency", "beats", "thrown"}

\* The empty buffer's run after the RangeError of detectBeats; the band
\* phase before it produced empty series
C11_Witness ==
    /\ audioBuffer.length = 0
    /\ pc = "thrown"
    /\ energy = <<>>
    /\ beats = NoBeats

HasValue(log, v) == \E i \in 1..Len(log) : EqFrac(log[i], v)
TimesReported(log, v) == Cardinality({i \in 1..Len(log) : EqFrac(log[i], v)})

\* The returned object: a tempo, the four timelines, and band and energy
\* series of numSamples values each
CompleteResult ==
    LET n == NumSamples(audioBuffer.length, audioBuffer.sampleRate)
    IN  /\ bpm \in minBPM..maxBPM
        /\ DOMAIN beats = {"all", "kicks", "snares", "hihats"}
        /\ beatList = beats.all
        /\ \A band \in BandNames : Len(frequency[band]) = n
        /\ Len(energy) = n

\* Some step of analyzeAudio can be taken
CanStep ==
    \/ BeginReady
    \/ FrequencyPhaseReady
    \/ BeatPhaseReady
    \/ BeatPhaseThrowsReady
    \/ BpmPhaseReady
    \/ CallbackThrowsReady

\* What every run has in common: it goes on until it has returned or
\* thrown, a returned run has a complete result and reported 1.0 last, no
\* phase runs twice (the log never falls back, 0.9 and 1.0 come once), and
\* nothing is reported after the callback has thrown.
RunsEndOneWay ==
    /\ pc \notin {"returned", "thrown"} => CanStep
    /\ pc \in {"returned", "thrown"} => ~CanStep
    /\ pc = "returned" =>
          /\ CompleteResult
          /\ onProgress => EqFrac(progress[Len(progress)], Frac(1, 1))
    /\ \A i \in 1..(Len(progress) - 1) : LeqFrac(progress[i], progress[i + 1])
    /\ TimesReported(progress, Frac(9, 10)) <= 1
    /\ TimesReported(progress, Frac(1, 1)) <= 1
    /\ (pc = "thrown" /\ throwAt \in 1..Len(progress)) => Len(progress) = throwAt

\* C12: every run ends by returning a complete result after progress 1.0,
\* or by an error that reaches the caller, with no result and progress 1.0
\* never reported; no phase is retried and no error is caught.
C12_ReturnsOrThrows ==
    /\ RunsEndOneWay
    /\ pc = "thrown" => ~HasValue(progress, Frac(1, 1))

\* C12 as it holds: a run that ends in an error has not reported 1.0 unless
\* the error is the one the callback threw in its call with 1.0.
C12_ReturnsOrThrowsUnlessLastCall ==
    /\ RunsEndOneWay
    /\ (pc = "thrown" /\ HasValue(progress, Frac(1, 1))) =>
          /\ throwAt = Len(progress)
          /\ EqFrac(progress[Len(progress)], Frac(1, 1))

\* The callback threw in its call with 1.0: all phases ran, no result
C12_Witness ==
    /\ pc = "thrown"
    /\ throwAt = Len(progress)
    /\ HasValue(progress, Frac(9, 10))
    /\ EqFrac(progress[Len(progress)], Frac(1, 1))

\* The run ended in the error the progress callback raised
CallbackThrew == pc = "thrown" /\ throwAt \in 1..Len(progress)

\* What the claim says of a run, whatever the callback does
FailsExactlyBelowOneFrame ==
    /\ (audioBuffer.numberOfChannels = 1 /\ audioBuffer.length >= frameSize) =>
          /\ pc # "thrown"
          /\ pc # "returned" => CanStep
    /\ audioBuffer.length < frameSize =>
          /\ pc \notin {"bpm", "returned"}
          /\ pc # "thrown" => CanStep
          /\ pc = "thrown" =>
                /\ NumFrames(audioBuffer.length) < 0
                /\ FFT_SIZE \in windowCache
                /\ Len(energy) = NumSamples(audioBuffer.length, audioBuffer.sampleRate)
                /\ beats = NoBeats
                /\ onProgress =>
                      /\ HasValue(progress, Frac(1, 10))
                      /\ EqFrac(progress[Len(progress)], Frac(5, 10))
                      /\ ~HasValue(progress, Frac(9, 10))
                      /\ ~HasValue(progress, Frac(1, 1))

\* C26: analyzeAudio completes and returns for every mono buffer of 1024
\* samples or more, and for every buffer of fewer than 1024 samples it
\* throws in beat detection, after the band and energy phase has run; with
\* a callback, 0.1 and 0.5 have then been reported and 0.9 and 1.0 have not.
C26_FailsExactlyBelowOneFrame == FailsExactlyBelowOneFrame

\* C26 as it holds: the same of every run that the progress callback does
\* not end; a run the callback ends stops at the call that threw, with the
\* value of that call the last one reported, and returns nothing.
C26_FailsBelowOneFrameUnlessCallbackThrows ==
    /\ ~CallbackThrew => FailsExactlyBelowOneFrame
    /\ CallbackThrew =>
          /\ Len(progress) = throwAt
          /\ ~CanStep
    /\ (pc = "thrown" /\ ~CallbackThrew) => audioBuffer.length < frameSize

\* The run of a 1023-sample buffer after the error of detectBeats, with 0.5
\* the last value the callback got
C26_Witness ==
    /\ audioBuffer.length = frameSize - 1
    /\ audioBuffer.numberOfChannels = 1
    /\ pc = "thrown"
    /\ onProgress
    /\ ~CallbackThrew
    /\ HasValue(progress, Frac(1, 10))
    /\ EqFrac(progress[Len(progress)], Frac(5, 10))
    /\ Len(energy) > 0

AllZero(series) == \A i \in 1..Len(series) : series[i] = 0

\* C13: for an all-zero buffer that is long enough to be analysed the run
\* returns empty kicks, snares, hihats and all timelines, bpm = 120, and
\* sub, bass, mid, high and energy series whose every value is 0.
C13_SilenceGivesZeros ==
    (pc = "returned" /\ audioBuffer.silent) =>
        /\ beats = NoBeats
        /\ bpm = fallbackBPM
        /\ \A band \in BandNames : AllZero(frequency[band])
        /\ AllZero(energy)

\* |t - c| <= 0.05 s for times in units of 1 / perSecond s
Within50ms(t, c, perSecond) ==
    (t - c) * 100 <= 5 * perSecond /\ (c - t) * 100 <= 5 * perSecond

\* One entry of the timeline within 0.05 s of each click
OnePerClick(timeline) ==
    \A c \in ClickSamples : \E i \in 1..Len(timeline) :
        Within50ms(timeline[i], c, ClickRate)

\* C14: for the 10 s, 44100 Hz mono buffer with four identical clicks at
\* 0.0, 0.5, 1.0 and 1.5 s the run reports bpm = 120, duration = 10, and
\* kicks and all timelines of 4 entries each, one within 0.05 s of each
\* click, the click at 0.0 s included.
C14_FourClicks ==
    (pc = "returned" /\ audioBuffer \in ClickBuffers) =>
        /\ bpm = 120
        /\ Duration(audioBuffer) = 10 * TicksPerSecond
        /\ Len(beats.kicks) = 4
        /\ Len(beats.all) = 4
        /\ OnePerClick(beats.kicks)
        /\ OnePerClick(beats.all)

\* C16: no step of analyzeAudio or of generateWaveform writes to the
\* caller's channel data, also for a mono buffer, whose own array getMono
\* hands to the analysis.
C16_ChannelDataUntouched == written \cap CallerArrays = {}

C16_Witness ==
    /\ pc = "returned"
    /\ audioBuffer.numberOfChannels = 1
    /\ MonoArray(audioBuffer) \in CallerArrays
    /\ {"frameData", "frequency", "energy", "kickFlux"} \subseteq written

\* ------------------------------------------------- analyzeAudio, repeated
\* Several invocations after one another in one page: the two Maps are
\* module-level and live on, everything else belongs to one invocation.
MaxRuns == 3
RepeatThrowAt == 2

\* A buffer too short for detectBeats and two buffers of one shape that
\* differ in their samples: trains of MaxRunBeats kicks at two tempos
RepeatBuffers ==
    {b \in RunBuffers :
        /\ b.numberOfChannels = 1 /\ b.sampleRate = 8192 /\ ~b.silent
        /\ \/ b.length = 500
           \/ /\ b.length = 270000
              /\ b.flux.snare = b.flux.hihat
              /\ Len(BeatsOf(b.flux, b.sampleRate).kicks) = MaxRunBeats
        /\ b.raw.energy[1] = Unit}

\* What an invocation that has ended gave its caller
Result ==
    IF pc = "returned"
    THEN [bpm |-> bpm, beats |-> beats, frequency |-> frequency, energy |-> energy]
    ELSE [bpm |-> 0, beats |-> NoBeats, frequency |-> NoFrequency, energy |-> <<>>]

Ended == [run |-> runs, buffer |-> audioBuffer, outcome |-> pc, result |-> Result]

InitRuns ==
    /\ pc = "call"
    /\ audioBuffer \in RepeatBuffers
    /\ onProgress \in BOOLEAN
    /\ throwAt \in (IF onProgress THEN {RepeatThrowAt} ELSE {0})
    /\ progress = <<>>
    /\ CachesEmpty
    /\ NothingWritten
    /\ FirstRun
    /\ FftIdle
    /\ SignalsIdle
    /\ WaveIdle
    /\ BpmIdle
    /\ BeatIdle
    /\ BandIdle

\* The caller invokes analyzeAudio again after the previous invocation has
\* returned or failed, with a buffer and a callback of its choice.  Nothing
\* of the page is reset: the Maps are as they are, and the arrays of the
\* invocation before stay with its caller until the phases of the new
\* invocation put their own in their place ("new Array(numSamples)",
\* "new Float32Array(numFrames)", "const peaks = []").
NewCall ==
    /\ pc \in {"returned", "thrown"}
    /\ runs < MaxRuns
    /\ history' = history \cup {Ended}
    /\ runs' = runs + 1
    /\ pc' = "call"
    /\ audioBuffer' \in RepeatBuffers
    /\ onProgress' \in BOOLEAN
    /\ throwAt' \in (IF onProgress' THEN {RepeatThrowAt} ELSE {0})
    /\ progress' = <<>>
    /\ written' = {}
    /\ UNCHANGED <<signalVars, cacheVars, fftVars, waveVars, bpmVars, beatVars, bandVars>>

NextRuns ==
    \/ Next
    \/ NewCall

SpecRuns == InitRuns /\ [][NextRuns]_vars

\* Every entry was set once and holds the table computed for its key
SetOnce ==
    /\ \A k \in DOMAIN cached :
            cached[k].sets = 1 /\ cached[k].table = TableFor(k)
    /\ twiddleCache = {k[2] : k \in {e \in DOMAIN cached : e[1] = "twiddle"}}
    /\ windowCache = {k[2] : k \in {e \in DOMAIN cached : e[1] = "window"}}

\* A step leaves every entry in its Map, the same object with the same
\* contents
EntriesKept ==
    \A k \in DOMAIN cached : k \in DOMAIN cached' /\ cached'[k] = cached[k]

\* C17: across any sequence of analyses the entry of a size in the twiddle
\* cache and in the window cache is computed and inserted at most once,
\* later requests return that entry, and no step changes an entry after
\* its insertion.
C17_CachesWriteOnce == []SetOnce /\ [][EntriesKept]_vars

C17_Witness ==
    /\ runs = 3
    /\ pc = "returned"
    /\ \E h \in history : h.outcome = "returned"
    /\ DOMAIN cached = {TwiddleKey(FFT_SIZE), TwiddleKey(frameSize),
                        WindowKey(FFT_SIZE), WindowKey(frameSize)}
    /\ \A k \in DOMAIN cached : cached[k].sets = 1

\* The result of an invocation in a page that has run none before: both
\* Maps are empty, so every table it works with is computed in it
FreshResult(buf) ==
    LET res == analyzeFrequencyAndEnergy(buf.sampleRate,
                   FrameSpectra(buf, Entry(<<>>, WindowKey(FFT_SIZE)),
                                Entry(<<>>, TwiddleKey(FFT_SIZE))))
        found == BeatsFound(FrameFlux(buf, Entry(<<>>, WindowKey(frameSize)),
                                       Entry(<<>>, TwiddleKey(frameSize))),
                             buf.sampleRate)
    IN  [bpm |-> TempoOf(found, buf), beats |-> found,
         frequency |-> res.frequency, energy |-> res.energy]

\* The invocations that have ended, the current one included
EndedRuns == history \cup (IF pc \in {"returned", "thrown"} THEN {Ended} ELSE {})

\* C18: two invocations of analyzeAudio on equal buffers that both return
\* give equal results, whatever invocations came before them and whether
\* the caches were empty or filled; the result is the one an invocation
\* with empty caches computes from the buffer alone.
C18_Deterministic ==
    /\ \A a \in EndedRuns : \A b \in EndedRuns :
            (a.buffer = b.buffer /\ a.outcome = "returned" /\ b.outcome = "returned")
                => a.result = b.result
    /\ pc = "returned" => Result = FreshResult(audioBuffer)

C18_Witness ==
    /\ pc = "returned"
    /\ runs = 3
    /\ Len(beats.all) >= 4
    /\ \E a \in history : \E b \in history :
            /\ a.run = 1 /\ a.outcome = "returned"
            /\ a.buffer = audioBuffer /\ a.result = Result
            /\ b.run = 2 /\ b.outcome = "thrown" /\ b.buffer # audioBuffer

\* -------------------------------------------------------------------- fft
\* A typed array is a sequence: source index i is position i + 1.
\* arr[i]: undefined outside the array, and every use fft makes of it
\* (arithmetic, a store into a Float32Array) turns undefined into NaN.
Read(arr, i) == IF i \in 0..(Len(arr) - 1) THEN arr[i + 1] ELSE NaN

\* arr[i] = v: a store outside a typed array is ignored
Write(arr, i, v) ==
    IF i \in 0..(Len(arr) - 1) THEN [arr EXCEPT ![i + 1] = v] ELSE arr

\* new Float32Array(n / 2): the length is truncated, so n \div 2 zeros
Float32ArrayOfHalf(n) == Array(Zeros(n \div 2))

\* a + b and a - b on tracked values
Add(a, b) ==
    IF IsNaN(a) \/ IsNaN(b) THEN NaN
    ELSE IF a = Inexact \/ b = Inexact THEN Inexact
    ELSE a + b
Sub(a, b) ==
    IF IsNaN(a) \/ IsNaN(b) THEN NaN
    ELSE IF a = Inexact \/ b = Inexact THEN Inexact
    ELSE a - b

\* table[num / den]: undefined when the index is not a whole number or is
\* outside the table
ReadTwiddle(table, num, den) ==
    IF num % den = 0 /\ (num \div den) \in 0..(Len(table) - 1)
    THEN table[(num \div den) + 1]
    ELSE "undefined"

\* twiddle * x
Mul(twiddle, x) ==
    IF twiddle = "undefined" \/ IsNaN(x) THEN NaN
    ELSE IF twiddle = "zero" \/ x = 0 THEN 0
    ELSE IF x = Inexact THEN Inexact
    ELSE IF twiddle = "one" THEN x
    ELSE IF twiddle = "minusOne" THEN 0 - x
    ELSE Inexact

MaxBits == 20

\* How often "for (let i = 0; i < bits; i++)" runs for bits = Math.log2(N):
\* the least b with 2^b >= N, and 0 for N = 0 (bits = -Infinity)
BitIterations(N) ==
    CHOOSE b \in 0..MaxBits : 2 ^ b >= N /\ (b = 0 \/ 2 ^ (b - 1) < N)

RECURSIVE ReverseLoop(_, _, _)
ReverseLoop(n, rounds, result) ==
    IF rounds = 0 THEN result
    ELSE ReverseLoop(n \div 2, rounds - 1, (result * 2) + (n % 2))

\* reverseBits(n, bits), given the number of rounds its loop makes
reverseBits(n, rounds) == ReverseLoop(n, rounds, 0)

\* the swap of real[i], real[j] and of imag[i], imag[j]
Swap(st, i, j) ==
    [real |-> Write(Write(st.real, i, Read(st.real, j)), j, Read(st.real, i)),
     imag |-> Write(Write(st.imag, i, Read(st.imag, j)), j, Read(st.imag, i))]

\* the bit-reversal permutation, from index i on (N = real.length)
RECURSIVE BitReversal(_, _, _)
BitReversal(st, rounds, i) ==
    IF i >= Len(st.real) THEN st
    ELSE LET j == reverseBits(i, rounds)
         IN  BitReversal(IF j > i THEN Swap(st, i, j) ELSE st, rounds, i + 1)

\* one butterfly: the body of the innermost loop, with idx = j * (N / size)
Butterfly(st, tw, size, i, j) ==
    LET N == Len(st.real)
        halfSize == size \div 2
        cosVal == ReadTwiddle(tw.cos, j * N, size)
        sinVal == ReadTwiddle(tw.sin, j * N, size)
        evenIdx == i + j
        oddIdx == i + j + halfSize
        tReal == Sub(Mul(cosVal, Read(st.real, oddIdx)), Mul(sinVal, Read(st.imag, oddIdx)))
        tImag == Add(Mul(sinVal, Read(st.real, oddIdx)), Mul(cosVal, Read(st.imag, oddIdx)))
        real1 == Write(st.real, oddIdx, Sub(Read(st.real, evenIdx), tReal))
        imag1 == Write(st.imag, oddIdx, Sub(Read(st.imag, evenIdx), tImag))
    IN  [real |-> Write(real1, evenIdx, Add(Read(real1, evenIdx), tReal)),
         imag |-> Write(imag1, evenIdx, Add(Read(imag1, evenIdx), tImag))]

RECURSIVE InnerLoop(_, _, _, _, _)
InnerLoop(st, tw, size, i, j) ==
    IF j >= size \div 2 THEN st
    ELSE InnerLoop(Butterfly(st, tw, size, i, j), tw, size, i, j + 1)

RECURSIVE BlockLoop(_, _, _, _)
BlockLoop(st, tw, size, i) ==
    IF i >= Len(st.real) THEN st
    ELSE BlockLoop(InnerLoop(st, tw, size, i, 0), tw, size, i + size)

RECURSIVE StageLoop(_, _, _)
StageLoop(st, tw, size) ==
    IF size > Len(st.real) THEN st
    ELSE StageLoop(BlockLoop(st, tw, size, 0), tw, size * 2)

\* fft(real, imag): the arrays as it leaves them
fft(real, imag) ==
    LET N == Len(real)
    IN  StageLoop(BitReversal([real |-> real, imag |-> imag], BitIterations(N), 0),
                  getTwiddleFactors(N), 2)

\* ------------------------------------------------------------- computeFFT
\* Magnitudes are counted in 1/64 (MagUnit), so that 1/N is a whole number
\* of units for the power-of-two sizes up to 16.
MagUnit == Unit * 2 ^ 4

Abs(x) == IF x < 0 THEN 0 - x ELSE x

\* Math.sqrt(re * re + im * im) / N: tracked when the root and the quotient
\* are dyadic values of the units in use
Magnitude_notScaled(re, im, N) ==
    IF IsNaN(re) \/ IsNaN(im) THEN NaN
    ELSE IF re = Inexact \/ im = Inexact THEN Inexact
    ELSE LET sq == re * re + im * im
             root == CHOOSE r \in 0..(Abs(re) + Abs(im)) :
                        r * r <= sq /\ (r + 1) * (r + 1) > sq
         IN  IF root * root = sq THEN root * (MagUnit \div Unit) ELSE Inexact

Magnitude(re, im, N) ==
    IF IsNaN(re) \/ IsNaN(im) THEN NaN
    ELSE IF re = Inexact \/ im = Inexact THEN Inexact
    ELSE LET sq == re * re + im * im
             root == CHOOSE r \in 0..(Abs(re) + Abs(im)) :
                        r * r <= sq /\ (r + 1) * (r + 1) > sq
         IN  IF root * root = sq /\ (root * (MagUnit \div Unit)) % N = 0
             THEN (root * (MagUnit \div Unit)) \div N
             ELSE Inexact

\* "for (let i = 0; i < N / 2; i++) magnitudes[i] = ...", from index i on
RECURSIVE MagnitudeLoop(_, _, _, _)
MagnitudeLoop(mags, st, N, i) ==
    IF 2 * i >= N THEN mags
    ELSE MagnitudeLoop(
            Write(mags, i, Magnitude(Read(st.real, i), Read(st.imag, i), N)),
            st, N, i + 1)

\* computeFFT(data): no statement of it, of fft, of reverseBits or of
\* getTwiddleFactors throws, whatever the length of data is
computeFFT(d) ==
    LET N == Len(d)
        st == fft(d, Array(Zeros(N)))
    IN  MagnitudeLoop(Float32ArrayOfHalf(N), st, N, 0)

MaxFftLen == 5
FftValues == {0 - (Unit \div 2), 0, Unit}

\* the impulse of length n: 1 at index 0, 0 elsewhere
Impulse(n) == Array([k \in 1..n |-> IF k = 1 THEN Unit ELSE 0])

FftInputs == SeqsUpTo(FftValues, MaxFftLen) \cup {Impulse(2 ^ 3), Impulse(2 ^ 4)}

IsPowerOfTwo(n) == \E k \in 0..MaxBits : n = 2 ^ k

InitFFT ==
    /\ pc = "call"
    /\ data \in FftInputs
    /\ magnitudes = <<>>
    /\ audioBuffer = MonoBuffer(<<>>)
    /\ WaveIdle
    /\ BpmIdle
    /\ BeatIdle
    /\ BandIdle
    /\ ProgressIdle
    /\ CachesEmpty
    /\ NothingWritten
    /\ FirstRun
    /\ SignalsIdle

ComputeFFT ==
    /\ pc = "call"
    /\ magnitudes' = computeFFT(data)
    /\ twiddleCache' = twiddleCache \cup {Len(data)}
    /\ cached' = Request(cached, TwiddleKey(Len(data)))
    /\ written' = written \cup computeFFTWrites(twiddleCache, Len(data))
    /\ pc' = "returned"
    /\ UNCHANGED <<signalVars, runVars, data, audioBuffer, windowCache, waveVars, bpmVars, beatVars,
                   bandVars, progressVars>>

NextFFT == ComputeFFT

SpecFFT == InitFFT /\ [][NextFFT]_vars

\* C10: computeFFT on an input whose length is 0 or not a power of two
\* fails with an error: it never returns a magnitude spectrum.
C10_NonPowerOfTwoFails ==
    pc = "returned" => IsPowerOfTwo(Len(data))

\* The arrays of fft for the input in data, after the permutation and at
\* the end
Permuted ==
    BitReversal([real |-> data, imag |-> Array(Zeros(Len(data)))],
                BitIterations(Len(data)), 0)

Transformed == fft(data, Array(Zeros(Len(data))))

AllEqual(arr, v) == \A i \in 1..Len(arr) : arr[i] = v

\* C15: for a power-of-two N, computeFFT of the impulse (1 at index 0, 0
\* elsewhere) returns N/2 magnitudes that all equal 1/N; the bit-reversal
\* permutation leaves the impulse where it is and the butterfly stages
\* leave 1 + 0i in every bin.
C15_ImpulseIsFlat ==
    (pc = "returned" /\ IsPowerOfTwo(Len(data)) /\ data = Impulse(Len(data))) =>
        /\ Len(magnitudes) = Len(data) \div 2
        /\ AllEqual(magnitudes, MagUnit \div Len(data))
        /\ MagUnit % Len(data) = 0
        /\ Permuted.real = data
        /\ AllEqual(Transformed.real, Unit)
        /\ AllEqual(Transformed.imag, 0)

C15_Witness ==
    /\ pc = "returned"
    /\ data = Impulse(2 ^ 4)
    /\ Len(magnitudes) = 2 ^ 3
    /\ AllEqual(magnitudes, MagUnit \div (2 ^ 4))

\* ------------------------------------------- AudioSignals: beat tracking
\* The variables of the analysis functions, and their values while only an
\* AudioSignals object is in use
analyzerVars == <<pc, audioBuffer, waveVars, bpmVars, beatVars, bandVars, progressVars,
                  cacheVars, written, runVars, fftVars>>
AnalyzerIdle ==
    /\ pc = "call"
    /\ audioBuffer = MonoBuffer(<<>>)
    /\ WaveIdle
    /\ BpmIdle
    /\ BeatIdle
    /\ BandIdle
    /\ ProgressIdle
    /\ CachesEmpty
    /\ NothingWritten
    /\ FirstRun
    /\ FftIdle

\* Times of the player are counted in ticks of 1/64 s, like beat timestamps;
\* this.beatWindow = 0.05 s is compared by cross-multiplication.
\* beatTime > time + this.beatWindow
AfterWindow(beatTime, time) == (beatTime - time) * 100 > 5 * TicksPerSecond

\* beatTime <= time && beatTime > time - this.beatWindow
InBeatWindow(beatTime, time) ==
    beatTime <= time /\ (time - beatTime) * 100 < 5 * TicksPerSecond

\* The for loop of checkBeat from index i on: the index of the beat that
\* makes it return true, or -1 when it ends without one
RECURSIVE ScanBeats(_, _, _)
ScanBeats(time, beatArray, i) ==
    IF i >= Len(beatArray) THEN 0 - 1
    ELSE IF AfterWindow(beatArray[i + 1], time) THEN 0 - 1
    ELSE IF InBeatWindow(beatArray[i + 1], time) THEN i
    ELSE ScanBeats(time, beatArray, i + 1)

\* mutation: the scan starts at index 0 on every call
checkBeat_fromStart(time, beatArray, lastIndex) ==
    LET found == IF beatArray = <<>> THEN 0 - 1 ELSE ScanBeats(time, beatArray, 0)
    IN  [hit |-> found >= 0, index |-> IF found >= 0 THEN found ELSE lastIndex]

\* checkBeat(time, beatArray, type) with lastIndex = this.lastBeatIndex[type]:
\* the value returned and this.lastBeatIndex[type] afterwards.  A missing
\* array and an empty one both give false.
checkBeat(time, beatArray, lastIndex) ==
    LET found == IF beatArray = <<>> THEN 0 - 1
                 ELSE ScanBeats(time, beatArray, lastIndex + 1)
    IN  [hit |-> found >= 0, index |-> IF found >= 0 THEN found ELSE lastIndex]

\* beats[i] < time - this.beatWindow
BeforeWindow(beatTime, time) == (time - beatTime) * 100 > 5 * TicksPerSecond

\* The loop of resetBeatTracking from index i on: the index it leaves
RECURSIVE LastBefore(_, _, _)
LastBefore(list, time, i) ==
    IF i < Len(list) /\ BeforeWindow(list[i + 1], time)
    THEN LastBefore(list, time, i + 1)
    ELSE i - 1

\* this.lastBeatIndex after resetBeatTracking(time), for this.trackData = track
resetBeatTracking(track, time) ==
    [type \in BeatTypes |->
        IF track = <<>> THEN 0 - 1 ELSE LastBefore(track[1].beats[type], time, 0)]

MaxPollTime == 18

\* A track of 20 ticks: two kicks 31 ms apart, a beat of all 62.5 ms after
\* the one before, no snares and no hihats
Track ==
    [duration |-> 20,
     beats |-> [all |-> <<4, 8, 16>>, kicks |-> <<4, 6>>, snares |-> <<>>,
                hihats |-> <<>>]]

\* The object after loadTrackData(Track)
InitTracking ==
    /\ AnalyzerIdle
    /\ trackData = <<Track>>
    /\ audioUrl = <<>>
    /\ playing = FALSE
    /\ startTime = 0
    /\ pauseTime = 0
    /\ simulatedStartTime = <<>>
    /\ simulatedInterval = FALSE
    /\ sourceNode = <<>>
    /\ audioContext = <<>>
    /\ decodedAudio = <<>>
    /\ gainNode = "none"
    /\ lastBeatIndex = NoneReported
    /\ now = 0
    /\ sources = <<>>
    /\ awaiting = <<>>
    /\ hits = NoHits
    /\ onEndCalls = <<>>
    /\ playback = "none"

\* One call checkBeat(time, beats[type], type), as getCurrentSignals makes
\* for each type with the time of the poll
CheckBeat ==
    \E time \in 0..MaxPollTime : \E type \in BeatTypes :
        LET res == checkBeat(time, trackData[1].beats[type], lastBeatIndex[type])
        IN  /\ lastBeatIndex' = [lastBeatIndex EXCEPT ![type] = res.index]
            /\ hits' = IF res.hit
                       THEN [hits EXCEPT ![type] = Append(@, <<res.index, time>>)]
                       ELSE hits
            /\ UNCHANGED <<analyzerVars, playerVars, browserVars, onEndCalls, playback>>

\* One call resetBeatTracking(time), as play, stop and seek make
ResetBeatTracking ==
    \E time \in 0..MaxPollTime :
        /\ lastBeatIndex' = resetBeatTracking(trackData, time)
        /\ hits' = NoHits
        /\ UNCHANGED <<analyzerVars, playerVars, browserVars, onEndCalls, playback>>

NextTracking ==
    \/ CheckBeat
    \/ ResetBeatTracking

SpecTracking == InitTracking /\ [][NextTracking]_vars

\* Since the last reset no index was reported twice, and every report was
\* made at a time t with t - 0.05 < beatTime <= t
ReportedOnceInWindow ==
    \A type \in BeatTypes :
        /\ \A i \in 1..Len(hits[type]) : \A j \in 1..Len(hits[type]) :
              i < j => hits[type][i][1] # hits[type][j][1]
        /\ \A i \in 1..Len(hits[type]) :
              InBeatWindow(trackData[1].beats[type][hits[type][i][1] + 1], hits[type][i][2])

\* lastBeatIndex[type] changes only in a reset or, upwards, to the index
\* of the beat a call has just reported
RaisedOnlyByHit ==
    \A type \in BeatTypes :
        lastBeatIndex'[type] # lastBeatIndex[type] =>
            \/ hits' = NoHits
            \/ /\ lastBeatIndex'[type] > lastBeatIndex[type]
               /\ Len(hits'[type]) = Len(hits[type]) + 1
               /\ hits'[type][Len(hits'[type])][1] = lastBeatIndex'[type]

\* C28: per beat type and between two resets of beat tracking every beat
\* index makes checkBeat return true at most once, lastBeatIndex[type] only
\* increases on a hit, a hit at time t is a beat with t - 0.05 < beatTime <= t,
\* and a beat that no poll catches inside that window is never reported.
C28_EachBeatReportedOnce ==
    /\ []ReportedOnceInWindow
    /\ [][RaisedOnlyByHit]_vars

\* Both close kicks reported by polls at the same time, and the second
\* beat of all passed over by a poll that caught the third
C28_Witness ==
    /\ Len(hits["kicks"]) = 2
    /\ hits["kicks"][1][2] = hits["kicks"][2][2]
    /\ Len(hits["all"]) = 1
    /\ hits["all"][1][1] = 2
    /\ lastBeatIndex["all"] = 2

\* ------------------------------------------------ AudioSignals: playback
\* The clocks are read in ticks: performance.now() is now, and
\* audioContext.currentTime is the time the context has been running: 0
\* while it is suspended, as the browser may create it.
ContextTime ==
    IF audioContext[1].state = "suspended" THEN 0 ELSE now - audioContext[1].since

\* getDuration(): this.trackData?.duration || this.audioBuffer?.duration || 0
\* (a duration of 0 is falsy and gives way to the next operand)
getDuration ==
    IF trackData # <<>> /\ trackData[1].duration # 0 THEN trackData[1].duration
    ELSE IF decodedAudio # <<>> /\ decodedAudio[1] # 0 THEN decodedAudio[1]
    ELSE 0

\* getCurrentTime()
getCurrentTime ==
    IF ~playing THEN pauseTime
    ELSE IF simulatedStartTime # <<>> THEN now - simulatedStartTime[1]
    ELSE IF audioContext # <<>> THEN ContextTime - startTime
    ELSE pauseTime

\* The length of the audio file, the same as the track's
AudioDuration == 2

MaxNow == 1
MaxSources == 2
MaxAwaiting == 1
MaxOnEndCalls == 1

\* An instant after every instant of the model
Never == MaxNow + 1

\* The buffer sources start(0, startOffset) can make of a source with the
\* given buffer.  started says that start() was called on the source,
\* stopped that stop() was, cut that this happened before the source had
\* played to its end at endsAt, and dispatched that its ended event has been
\* handled.  A source without a buffer plays silence: the browser ends it
\* at once or not at all.
NewSources(startOffset, buffer) ==
    {[started |-> TRUE, stopped |-> FALSE, cut |-> FALSE, dispatched |-> FALSE,
      endsAt |-> endsAt] :
        endsAt \in IF buffer = <<>> THEN {now, Never}
                   ELSE {now + (IF startOffset < buffer[1] THEN buffer[1] - startOffset ELSE 0)}}

\* A source that createBufferSource() returned and start() was never called on
NeverStarted ==
    [started |-> FALSE, stopped |-> FALSE, cut |-> FALSE, dispatched |-> FALSE, endsAt |-> 0]

\* A source whose ended event has been handled: nothing of it matters any more
Handled ==
    [started |-> TRUE, stopped |-> TRUE, cut |-> FALSE, dispatched |-> TRUE, endsAt |-> 0]

\* node.stop() for the node in the field value node (nothing for null)
Stopped(all, node) ==
    IF node = <<>> THEN all
    ELSE LET old == all[node[1]]
         IN  [all EXCEPT ![node[1]] =
                [old EXCEPT !.stopped = TRUE,
                            !.cut = IF old.stopped THEN old.cut ELSE now < old.endsAt,
                            !.endsAt = 0]]

\* this.sourceNode.stop() throws InvalidStateError: start() was never called
\* on the source
StopThrows == sourceNode # <<>> /\ ~sources[sourceNode[1]].started

AudioFile == "track.mp3"
\* A track of 2 ticks with one beat, and its audio file of the same length
ShortTrack ==
    [duration |-> AudioDuration,
     beats |-> [all |-> <<1>>, kicks |-> <<1>>, snares |-> <<>>, hihats |-> <<>>]]
\* The offset argument of play(): none, or 1 tick before the end
PlayOffsets == {<<>>, <<ShortTrack.duration - 1>>}
\* The argument of seek(): a position in the track and one past its end
SeekTimes == {1, ShortTrack.duration + 1}

\* A call suspended at an await: play(offset) at "await this.initAudio()" or
\* initAudio() itself.  phase says what it waits for: "resume" for
\* this.audioContext.resume() ("closed" once dispose() has closed that
\* context), "fetch" for fetch(this.audioUrl) and
\* response.arrayBuffer(), "decode" for decodeAudioData(arrayBuffer),
\* "ready" for nothing more, initAudio having returned without an await,
\* so that play goes on in the same task as soon as the code that called it
\* has run.
Suspended(call, offset, phase) == [call |-> call, offset |-> offset, phase |-> phase]

Without(calls, k) == SubSeq(calls, 1, k - 1) \o SubSeq(calls, k + 1, Len(calls))

\* A call is about to go on within the running task: no timer, event or
\* response is handled before it has
MicrotaskPending == \E k \in 1..Len(awaiting) : awaiting[k].phase = "ready"

\* The model follows the object up to its MaxOnEndCalls-th call of onEnd
CallsLeft == Len(onEndCalls) < MaxOnEndCalls

InitPlayback ==
    /\ AnalyzerIdle
    /\ SignalsIdle

\* loadTrack(trackUrl, audioUrl), from the moment the track JSON has arrived
LoadTrack ==
    /\ CallsLeft
    /\ \E url \in {<<>>, <<AudioFile>>} :
           /\ ~MicrotaskPending
           /\ trackData' = <<ShortTrack>>
           /\ audioUrl' = url
           /\ lastBeatIndex' = NoneReported
           /\ hits' = NoHits
           /\ playing' = FALSE
           /\ startTime' = 0
           /\ pauseTime' = 0
           /\ UNCHANGED <<analyzerVars, browserVars, simulatedStartTime, simulatedInterval,
                          sourceNode, audioContext, decodedAudio, gainNode, onEndCalls, playback>>

\* pause() while playing, when this.sourceNode.stop() throws: the position
\* and playing are set, and the source and the timer are left as they are.
\* stop(), dispose(), seek() and loadTrackData end with it.
PauseAborted ==
    /\ pauseTime' = getCurrentTime
    /\ playing' = FALSE
    /\ UNCHANGED <<analyzerVars, browserVars, trackData, audioUrl, startTime,
                   simulatedStartTime, simulatedInterval, sourceNode, audioContext,
                   decodedAudio, gainNode, lastBeatIndex, hits, onEndCalls, playback>>

\* loadTrackData(trackData, audioUrl); its stop() comes down to stopping the
\* source, since every field stop() sets is set again below
LoadTrackData ==
    /\ CallsLeft
    /\ \E url \in {<<>>, <<AudioFile>>} :
           IF playing /\ StopThrows THEN PauseAborted
           ELSE /\ sources' = IF playing THEN Stopped(sources, sourceNode) ELSE sources
                /\ sourceNode' = IF playing THEN <<>> ELSE sourceNode
                /\ trackData' = <<ShortTrack>>
                /\ audioUrl' = url
                /\ lastBeatIndex' = NoneReported
                /\ hits' = NoHits
                /\ playing' = FALSE
                /\ startTime' = 0
                /\ pauseTime' = 0
                /\ simulatedStartTime' = <<>>
                /\ simulatedInterval' = FALSE
                /\ decodedAudio' = IF url # <<>> /\ audioUrl # url THEN <<>> ELSE decodedAudio
                /\ UNCHANGED <<analyzerVars, now, awaiting, audioContext, gainNode, onEndCalls,
                               playback>>

\* offset !== null ? offset : this.pauseTime
StartOffset(offset) == IF offset # <<>> THEN offset[1] ELSE pauseTime

\* play(offset) without an audio URL: simulated playback
PlaySimulated ==
    /\ CallsLeft
    /\ \E offset \in PlayOffsets :
           /\ audioUrl = <<>>
           /\ trackData # <<>>
           /\ simulatedStartTime' = <<now - StartOffset(offset)>>
           /\ playing' = TRUE
           /\ lastBeatIndex' = resetBeatTracking(trackData, StartOffset(offset))
           /\ hits' = NoHits
           /\ simulatedInterval' = TRUE
           /\ playback' = "simulated"
           /\ UNCHANGED <<analyzerVars, browserVars, trackData, audioUrl, startTime, pauseTime,
                          sourceNode, audioContext, decodedAudio, gainNode, onEndCalls>>

\* new AudioContext(): the browser creates it running or, before it allows
\* sound, suspended
NewContexts == {<<[since |-> now, state |-> state]>> : state \in {"running", "suspended"}}

\* initAudio() with an audio URL, up to its first await, called by call with
\* the given offset.  The context is created if there is none.  With a
\* suspended context the call waits for resume(); else, without
\* this.audioBuffer, for the fetch.  Else initAudio runs to its end: the gain
\* node is created if there is none, and play goes on once its caller has
\* run.
InitAudioBegins(call, offset) ==
    \E context \in IF audioContext = <<>> THEN NewContexts ELSE {audioContext} :
        /\ audioContext' = context
        /\ IF context[1].state = "suspended"
           THEN /\ Len(awaiting) < MaxAwaiting
                /\ awaiting' = Append(awaiting, Suspended(call, offset, "resume"))
                /\ gainNode' = gainNode
           ELSE IF decodedAudio = <<>>
           THEN /\ Len(awaiting) < MaxAwaiting
                /\ awaiting' = Append(awaiting, Suspended(call, offset, "fetch"))
                /\ gainNode' = gainNode
           ELSE /\ call = "play" => Len(awaiting) < MaxAwaiting
                /\ awaiting' = IF call = "play"
                               THEN Append(awaiting, Suspended(call, offset, "ready"))
                               ELSE awaiting
                /\ gainNode' = IF gainNode = "none" THEN "current" ELSE gainNode

\* play(offset) with an audio URL, up to "await this.initAudio()"
PlayBegin ==
    /\ CallsLeft
    /\ \E offset \in PlayOffsets :
           /\ audioUrl # <<>>
           /\ InitAudioBegins("play", offset)
           /\ UNCHANGED <<analyzerVars, now, sources, trackData, audioUrl, playing, startTime,
                          pauseTime, simulatedStartTime, simulatedInterval, sourceNode,
                          decodedAudio, lastBeatIndex, hits, onEndCalls, playback>>

\* The rest of play(offset) once initAudio is done, with the audio buffer
\* and the gain node initAudio has left.  A source that was never started
\* makes stop() throw.  Else the old source is stopped; without a context
\* createBufferSource() throws.  Else this.sourceNode is a new source;
\* connect() throws for a gain node of another context, and the source is
\* never started.  Else onended is set and the source started.
PlayContinues(offset, buffer, gain) ==
    IF StopThrows
    THEN UNCHANGED <<sources, sourceNode, startTime, playing, lastBeatIndex, hits, playback>>
    ELSE IF audioContext = <<>>
    THEN /\ sources' = Stopped(sources, sourceNode)
         /\ UNCHANGED <<sourceNode, startTime, playing, lastBeatIndex, hits, playback>>
    ELSE IF gain # "current"
    THEN /\ Len(sources) < MaxSources
         /\ sources' = Append(Stopped(sources, sourceNode), NeverStarted)
         /\ sourceNode' = <<Len(sources) + 1>>
         /\ UNCHANGED <<startTime, playing, lastBeatIndex, hits, playback>>
    ELSE \E source \in NewSources(StartOffset(offset), buffer) :
         /\ Len(sources) < MaxSources
         /\ sources' = Append(Stopped(sources, sourceNode), source)
         /\ sourceNode' = <<Len(sources) + 1>>
         /\ startTime' = ContextTime - StartOffset(offset)
         /\ playing' = TRUE
         /\ lastBeatIndex' = resetBeatTracking(trackData, StartOffset(offset))
         /\ hits' = NoHits
         /\ playback' = "real"

\* play(offset) goes on after an initAudio() that returned without an await
PlayResume ==
    /\ CallsLeft
    /\ \E k \in 1..Len(awaiting) :
           /\ awaiting[k].phase = "ready"
           /\ awaiting' = Without(awaiting, k)
           /\ PlayContinues(awaiting[k].offset, decodedAudio, gainNode)
           /\ UNCHANGED <<analyzerVars, now, trackData, audioUrl, pauseTime, simulatedStartTime,
                          simulatedInterval, audioContext, decodedAudio, gainNode, onEndCalls>>

\* initAudio() called on its own, with an audio URL
InitAudio ==
    /\ CallsLeft
    /\ audioUrl # <<>>
    /\ InitAudioBegins("initAudio", <<>>)
    /\ UNCHANGED <<analyzerVars, now, sources, trackData, audioUrl, playing, startTime,
                   pauseTime, simulatedStartTime, simulatedInterval, sourceNode,
                   decodedAudio, lastBeatIndex, hits, onEndCalls, playback>>

\* initAudio() called on its own without an audio URL throws "No audio URL
\* set", and so does play() with neither an audio URL nor a track ("No track
\* data loaded"): nothing changes
NothingLoaded ==
    /\ CallsLeft
    /\ audioUrl = <<>>
    /\ UNCHANGED vars

\* The audio file has arrived: decodeAudioData is called on the context
AudioFetched ==
    /\ CallsLeft
    /\ \E k \in 1..Len(awaiting) :
           /\ ~MicrotaskPending
           /\ awaiting[k].phase = "fetch"
           /\ audioContext # <<>>
           /\ awaiting' = [awaiting EXCEPT ![k].phase = "decode"]
           /\ UNCHANGED <<analyzerVars, playerVars, now, sources, lastBeatIndex, hits,
                          onEndCalls, playback>>

\* initAudio() throws "Could not load audio": the fetch or the decoding has
\* failed, or dispose() has dropped the context before decodeAudioData is
\* called on it.  A play() that waited for it is rejected.
CouldNotLoad ==
    /\ CallsLeft
    /\ \E k \in 1..Len(awaiting) :
           /\ ~MicrotaskPending
           /\ awaiting[k].phase \in {"fetch", "decode"}
           /\ awaiting' = Without(awaiting, k)
           /\ UNCHANGED <<analyzerVars, playerVars, now, sources, lastBeatIndex, hits,
                          onEndCalls, playback>>

\* The end of initAudio for the suspended call k, with the audio buffer
\* given: the gain node is created if there is none, which throws without a
\* context (dispose() during the await).  A play() that waited goes on at
\* once.
InitAudioEnds(k, buffer) ==
    /\ awaiting' = Without(awaiting, k)
    /\ IF gainNode = "none" /\ audioContext = <<>>
       THEN UNCHANGED <<gainNode, sources, sourceNode, startTime, playing, lastBeatIndex,
                        hits, playback>>
       ELSE /\ gainNode' = IF gainNode = "none" THEN "current" ELSE gainNode
            /\ IF awaiting[k].call = "play"
               THEN PlayContinues(awaiting[k].offset, buffer,
                                  IF gainNode = "none" THEN "current" ELSE gainNode)
               ELSE UNCHANGED <<sources, sourceNode, startTime, playing, lastBeatIndex,
                                hits, playback>>

\* The audio is decoded: this.audioBuffer is set and initAudio runs to its end
AudioDecoded ==
    /\ CallsLeft
    /\ \E k \in 1..Len(awaiting) :
           /\ ~MicrotaskPending
           /\ awaiting[k].phase = "decode"
           /\ decodedAudio' = <<AudioDuration>>
           /\ InitAudioEnds(k, <<AudioDuration>>)
           /\ UNCHANGED <<analyzerVars, now, trackData, audioUrl, pauseTime, simulatedStartTime,
                          simulatedInterval, audioContext, onEndCalls>>

\* resume() is done: the context the call waited for runs, its clock at 0,
\* and initAudio goes on: without this.audioBuffer it waits for the fetch,
\* else it runs to its end.  The promise of a context that dispose() has
\* closed may be fulfilled as well; no context runs then.
ContextResumed ==
    /\ CallsLeft
    /\ \E k \in 1..Len(awaiting) :
           /\ ~MicrotaskPending
           /\ awaiting[k].phase \in {"resume", "closed"}
           /\ audioContext' =
                  IF awaiting[k].phase = "resume" /\ audioContext[1].state = "suspended"
                  THEN <<[since |-> now, state |-> "running"]>>
                  ELSE audioContext
           /\ IF decodedAudio = <<>>
              THEN /\ awaiting' = [awaiting EXCEPT ![k].phase = "fetch"]
                   /\ UNCHANGED <<gainNode, sources, sourceNode, startTime, playing,
                                  lastBeatIndex, hits, playback>>
              ELSE InitAudioEnds(k, decodedAudio)
           /\ UNCHANGED <<analyzerVars, now, trackData, audioUrl, pauseTime, simulatedStartTime,
                          simulatedInterval, decodedAudio, onEndCalls>>

\* resume() is rejected because dispose() has closed its context: initAudio
\* throws, and a play() that waited for it is rejected
ResumeRejected ==
    /\ CallsLeft
    /\ \E k \in 1..Len(awaiting) :
           /\ ~MicrotaskPending
           /\ awaiting[k].phase = "closed"
           /\ awaiting' = Without(awaiting, k)
           /\ UNCHANGED <<analyzerVars, playerVars, now, sources, lastBeatIndex, hits,
                          onEndCalls, playback>>

\* pause() while playing
Pause ==
    /\ CallsLeft
    /\ playing
    /\ IF StopThrows THEN PauseAborted
       ELSE /\ pauseTime' = getCurrentTime
            /\ playing' = FALSE
            /\ sources' = Stopped(sources, sourceNode)
            /\ sourceNode' = <<>>
            /\ simulatedInterval' = FALSE
            /\ UNCHANGED <<analyzerVars, now, awaiting, trackData, audioUrl, startTime,
                           simulatedStartTime, audioContext, decodedAudio, gainNode,
                           lastBeatIndex, hits, onEndCalls, playback>>

\* stop(): pause(), then the position and the beat tracking are reset
Stop ==
    /\ CallsLeft
    /\ IF playing /\ StopThrows THEN PauseAborted
       ELSE /\ playing' = FALSE
            /\ sources' = IF playing THEN Stopped(sources, sourceNode) ELSE sources
            /\ sourceNode' = IF playing THEN <<>> ELSE sourceNode
            /\ simulatedInterval' = IF playing THEN FALSE ELSE simulatedInterval
            /\ pauseTime' = 0
            /\ simulatedStartTime' = <<>>
            /\ lastBeatIndex' = resetBeatTracking(trackData, 0)
            /\ hits' = NoHits
            /\ UNCHANGED <<analyzerVars, now, awaiting, trackData, audioUrl, startTime,
                           audioContext, decodedAudio, gainNode, onEndCalls, playback>>

\* The calls that wait, those for resume() now for a context that is closed
ContextClosed(calls) ==
    [k \in 1..Len(calls) |->
        IF calls[k].phase = "resume" THEN [calls[k] EXCEPT !.phase = "closed"]
        ELSE calls[k]]

\* dispose(): stop(), then the timer is cleared, the context closed and
\* dropped, and the audio, the track and the simulated start time forgotten.
\* this.gainNode is kept: from now on it is a node of a closed context.
Dispose ==
    /\ CallsLeft
    /\ IF playing /\ StopThrows THEN PauseAborted
       ELSE /\ playing' = FALSE
            /\ sources' = IF playing THEN Stopped(sources, sourceNode) ELSE sources
            /\ sourceNode' = IF playing THEN <<>> ELSE sourceNode
            /\ pauseTime' = 0
            /\ lastBeatIndex' = resetBeatTracking(trackData, 0)
            /\ hits' = NoHits
            /\ simulatedInterval' = FALSE
            /\ audioContext' = <<>>
            /\ awaiting' = ContextClosed(awaiting)
            /\ gainNode' = IF gainNode = "none" THEN "none" ELSE "closed"
            /\ decodedAudio' = <<>>
            /\ trackData' = <<>>
            /\ simulatedStartTime' = <<>>
            /\ UNCHANGED <<analyzerVars, now, audioUrl, startTime, onEndCalls, playback>>

\* Math.max(0, Math.min(time, this.getDuration()))
Clamped(time) == IF time < 0 THEN 0 ELSE Min(time, getDuration)

\* seek(time) while paused
SeekPaused ==
    /\ CallsLeft
    /\ \E time \in SeekTimes :
           /\ ~playing
           /\ pauseTime' = Clamped(time)
           /\ simulatedStartTime' = <<>>
           /\ lastBeatIndex' = resetBeatTracking(trackData, Clamped(time))
           /\ hits' = NoHits
           /\ UNCHANGED <<analyzerVars, browserVars, trackData, audioUrl, playing, startTime,
                          simulatedInterval, sourceNode, audioContext, decodedAudio, gainNode,
                          onEndCalls, playback>>

\* seek(time) during simulated playback: pause(), the new position, and
\* play(this.pauseTime), which runs to its end at once
SeekSimulated ==
    /\ CallsLeft
    /\ \E time \in SeekTimes :
           /\ playing
           /\ audioUrl = <<>>
           /\ trackData # <<>>
           /\ IF StopThrows THEN PauseAborted
              ELSE /\ sources' = Stopped(sources, sourceNode)
                   /\ sourceNode' = <<>>
                   /\ pauseTime' = Clamped(time)
                   /\ simulatedStartTime' = <<now - Clamped(time)>>
                   /\ playing' = TRUE
                   /\ lastBeatIndex' = resetBeatTracking(trackData, Clamped(time))
                   /\ hits' = NoHits
                   /\ simulatedInterval' = TRUE
                   /\ playback' = "simulated"
                   /\ UNCHANGED <<analyzerVars, now, awaiting, trackData, audioUrl, startTime,
                                  audioContext, decodedAudio, gainNode, onEndCalls>>

\* seek(time) during playback with an audio URL: pause(), the new position,
\* and play(this.pauseTime) up to "await this.initAudio()"
SeekReal ==
    /\ CallsLeft
    /\ \E time \in SeekTimes :
           /\ playing
           /\ audioUrl # <<>>
           /\ IF StopThrows THEN PauseAborted
              ELSE /\ sources' = Stopped(sources, sourceNode)
                   /\ sourceNode' = <<>>
                   /\ playing' = FALSE
                   /\ simulatedInterval' = FALSE
                   /\ pauseTime' = Clamped(time)
                   /\ simulatedStartTime' = <<>>
                   /\ lastBeatIndex' = resetBeatTracking(trackData, Clamped(time))
                   /\ hits' = NoHits
                   /\ InitAudioBegins("play", <<Clamped(time)>>)
                   /\ UNCHANGED <<analyzerVars, now, trackData, audioUrl, startTime,
                                  decodedAudio, onEndCalls, playback>>

\* The timer of _startSimulatedPlayback fires: it clears itself when
\* nothing plays, and at the end of the track it ends playback and calls
\* onEnd
SimulatedIntervalFires ==
    /\ CallsLeft
    /\ ~MicrotaskPending
    /\ simulatedInterval
    /\ IF ~playing
       THEN /\ simulatedInterval' = FALSE
            /\ UNCHANGED <<playing, pauseTime, onEndCalls>>
       ELSE /\ getCurrentTime >= getDuration
            /\ playing' = FALSE
            /\ pauseTime' = 0
            /\ simulatedInterval' = FALSE
            /\ onEndCalls' =
                  Append(onEndCalls,
                         [by |-> "timer", source |-> 0, latest |-> Len(sources),
                          reachedEnd |-> TRUE, during |-> playback])
    /\ UNCHANGED <<analyzerVars, browserVars, trackData, audioUrl, startTime, simulatedStartTime,
                   sourceNode, audioContext, decodedAudio, gainNode, lastBeatIndex, hits,
                   playback>>

\* The ended event of a source is handled: it is sent once, after stop() or
\* when the source has played to its end.  The handler of lines 165-170
\* looks at this.playing only.
OnEnded ==
    /\ CallsLeft
    /\ \E id \in 1..Len(sources) :
           /\ ~MicrotaskPending
           /\ sources[id].started
           /\ ~sources[id].dispatched
           /\ sources[id].stopped \/ now >= sources[id].endsAt
           /\ sources' = [sources EXCEPT ![id] = Handled]
           /\ playing' = FALSE
           /\ onEndCalls' =
                 IF playing
                 THEN Append(onEndCalls,
                             [by |-> "ended", source |-> id, latest |-> Len(sources),
                              reachedEnd |-> ~sources[id].cut, during |-> playback])
                 ELSE onEndCalls
           /\ UNCHANGED <<analyzerVars, now, awaiting, trackData, audioUrl, startTime, pauseTime,
                          simulatedStartTime, simulatedInterval, sourceNode, audioContext,
                          decodedAudio, gainNode, lastBeatIndex, hits, playback>>

\* Time passes
TimePasses ==
    /\ CallsLeft
    /\ ~MicrotaskPending
    /\ now < MaxNow
    /\ now' = now + 1
    /\ UNCHANGED <<analyzerVars, playerVars, sources, awaiting, lastBeatIndex, hits,
                   onEndCalls, playback>>

NextPlayback ==
    \/ LoadTrack
    \/ LoadTrackData
    \/ PlaySimulated
    \/ PlayBegin
    \/ PlayResume
    \/ InitAudio
    \/ NothingLoaded
    \/ AudioFetched
    \/ CouldNotLoad
    \/ AudioDecoded
    \/ ContextResumed
    \/ ResumeRejected
    \/ Pause
    \/ Stop
    \/ Dispose
    \/ SeekPaused
    \/ SeekSimulated
    \/ SeekReal
    \/ SimulatedIntervalFires
    \/ OnEnded
    \/ TimePasses

SpecPlayback == InitPlayback /\ [][NextPlayback]_vars

\* C29: with real audio, playing is cleared and onEnd is called only when
\* the source started by the most recent play() reaches its end; the ended
\* event of an earlier source, stopped by pause(), seek() or a second
\* play(), never does so while newer playback runs.
C29_OnlyLatestSourceEndsPlayback ==
    \A k \in 1..Len(onEndCalls) :
        onEndCalls[k].during = "real" =>
            /\ onEndCalls[k].by = "ended"
            /\ onEndCalls[k].source = onEndCalls[k].latest
            /\ onEndCalls[k].reachedEnd

\* What the handler does guarantee: it clears playing only for a source
\* whose ended event was due, once per source
C29_EndedHandledOncePerSource ==
    \A k \in 1..Len(onEndCalls) :
        onEndCalls[k].by = "ended" =>
            /\ sources[onEndCalls[k].source].dispatched
            /\ \A j \in 1..Len(onEndCalls) :
                   (onEndCalls[j].by = "ended" /\ onEndCalls[j].source = onEndCalls[k].source)
                       => j = k

\* C30: during real-audio playback getCurrentTime returns
\* audioContext.currentTime - startTime and during simulated playback the
\* simulated clock; a simulated start time left by an earlier simulated
\* play is never used once a track with an audio URL is loaded and played.
C30_ClockFollowsPlayback ==
    /\ (playing /\ playback = "real") =>
          /\ audioContext # <<>>
          /\ getCurrentTime = ContextTime - startTime
    /\ (playing /\ playback = "simulated") =>
          /\ simulatedStartTime # <<>>
          /\ getCurrentTime = now - simulatedStartTime[1]

\* What holds: the clock of real playback is right whenever no simulated
\* start time is left over
C30_ClockRightWithoutLeftover ==
    (playing /\ playback = "real" /\ simulatedStartTime = <<>>) =>
        /\ audioContext # <<>>
        /\ getCurrentTime = ContextTime - startTime

====
